---- MODULE Spec2Model ----
(***************************************************************************)
(* Model of the dataset pipeline of shipping-doc-analyst:                  *)
(*   - scripts/split_data.py        (the stratified splitter, Spec)        *)
(*   - scripts/validate_annotations.py (the structural validator,          *)
(*                                      SpecValidator)                     *)
(*     and its statistics extractor; the validation tool as a whole and    *)
(*     the exit status of the tools, SpecExitStatus                        *)
(*   - scripts/data_quality_report.py (the quality reporter, SpecReporter) *)
(*   - scripts/annotate_documents.py (the annotation collector,            *)
(*                                    SpecCollector)                       *)
(*   - config/settings.py           (the Settings class, SpecSettings)     *)
(* SpecMalformed is the splitter run on directories that hold records      *)
(* which do not parse.                                                     *)
(*                                                                         *)
(* A ratio is a rational k / RatioDen held as its numerator k.  With       *)
(* RatioDen = 128 every ratio of the model, every product n * ratio and    *)
(* every ratio sum is an exact binary floating point number, so the        *)
(* integer arithmetic below is the arithmetic the interpreter does.        *)
(*                                                                         *)
(* A path is a record [dir, stem, ext]: the sequence of the directory      *)
(* names, the file stem and the extension.  The file tree fs maps the path *)
(* of every existing file to the kind of its content.                      *)
(***************************************************************************)
EXTENDS Integers, Sequences, FiniteSets, TLC

VARIABLES
    \* ---- splitter: the command line (split_data.py:41-53)
    input_path, base_dir, train_ratio, val_ratio, test_ratio, seed, copy_pdfs,
    \* ---- splitter: the world
    fs,          \* the file tree: path -> content kind
    fs0,         \* the file tree when the current process started
    rng,         \* state of the module-level generator of `random`
    \* ---- splitter: locals of main
    json_files, by_type, gi, train_files, val_files, test_files, ci,
    \* ---- splitter: outcome
    pc, exit_status, exception, console, manifest,
    \* ---- history: the type read for each discovered file, and the
    \* partition the run before made of the same discovery
    seen_types, prev,
    \* ---- validator: the parsed record, validate_annotation's result and
    \* get_annotation_stats' result
    data, result, stats,
    \* ---- validator, main: the discovered files in discovery order, the
    \* results list, the position of the process and its exit status
    annotation_files, results, validator_pc, validator_exit,
    \* ---- quality reporter: what each split directory holds, the analysed
    \* splits, the report written and the position of the process
    split_dirs, split_data, report, report_pc,
    \* ---- annotation collector: the PDFs under the data directory, the
    \* --output-dir option, the files under the ground-truth directory, the
    \* list and the summary of the session, the loop index, the position of
    \* the process and the number of sessions started
    raw_pdfs, output_dir, ground_truth, unannotated, shown, annotate_i,
    collector_pc, sessions,
    \* ---- history: what each save wrote
    saved,
    \* ---- settings: the environment, the constructor's arguments and the
    \* object built
    environ, init_kwargs, settings

vars == <<input_path, base_dir, train_ratio, val_ratio, test_ratio, seed,
          copy_pdfs, fs, fs0, rng, json_files, by_type, gi, train_files,
          val_files, test_files, ci, pc, exit_status, exception, console,
          manifest, seen_types, prev, data, result, stats,
          annotation_files, results, validator_pc, validator_exit,
          split_dirs, split_data, report, report_pc, raw_pdfs,
          output_dir, ground_truth, unannotated, shown, annotate_i, collector_pc,
          sessions, saved, environ, init_kwargs, settings>>

splitArgs == <<input_path, base_dir, train_ratio, val_ratio, test_ratio, seed,
               copy_pdfs>>
splitLocals == <<json_files, by_type, gi, train_files, val_files, test_files, ci>>
splitOutcome == <<pc, exit_status, exception, console>>
validatorVars == <<data, result, stats>>
validatorMain == <<annotation_files, results, validator_pc, validator_exit>>
reportVars == <<split_dirs, split_data, report, report_pc>>
collectorVars == <<raw_pdfs, output_dir, ground_truth, unannotated, shown, annotate_i,
                   collector_pc, sessions, saved>>
settingsVars == <<environ, init_kwargs, settings>>
laterTools == <<collectorVars, settingsVars>>
otherTools == <<validatorVars, validatorMain, reportVars, laterTools>>

Null == [null |-> TRUE]

(***************************************************************************)
(* Bounds of the model.                                                    *)
(***************************************************************************)
\* at most this many record files under the input directory
MaxRecords == 3
\* at most this many fields in the entities mapping of a record
MaxEntityFields == 3
\* at most this many files under the directory the validation tool is run on
MaxAnnotationFiles == 3
\* at most this many files that do not parse in a split directory
MaxUnparsable == 1

(***************************************************************************)
(* Thresholds of the quality reporter.                                     *)
(***************************************************************************)
\* data_quality_report.py:216
SmallDataset == 30
\* data_quality_report.py:218
GoodDataset == 100
\* the seeds are DefaultSeed .. DefaultSeed + ExtraSeeds
ExtraSeeds == 1
\* denominator of the ratios
RatioDen == 128
\* command lines whose ratio sum is further than this many units from 1.0
\* are left out (they take the same rejection path)
MaxSumError == 2

\* split_data.py:48
DefaultSeed == 42

Abs(x) == IF x < 0 THEN -x ELSE x
Min(a, b) == IF a <= b THEN a ELSE b
Max(a, b) == IF a >= b THEN a ELSE b

Range(s) == {s[i] : i \in DOMAIN s}

RECURSIVE Concat(_)
\* the concatenation of a sequence of sequences
Concat(ss) == IF ss = <<>> THEN <<>> ELSE Head(ss) \o Concat(Tail(ss))

\* every ordering of a finite set, as sequences
Orderings(S) ==
    {s \in [1..Cardinality(S) -> S] : \A i, j \in DOMAIN s : i # j => s[i] # s[j]}

(***************************************************************************)
(* Paths (pathlib).                                                        *)
(***************************************************************************)
IsPrefix(d, e) == Len(d) <= Len(e) /\ SubSeq(e, 1, Len(d)) = d

\* Path.relative_to: the directory of p below the directory root
RelativeDir(p, root) == SubSeq(p.dir, Len(root) + 1, Len(p.dir))

\* Path.parent of a directory ("." is its own parent)
Parent(d) == IF d = <<>> THEN <<>> ELSE SubSeq(d, 1, Len(d) - 1)

\* Path.name of a directory
DirName(d) == IF d = <<>> THEN "" ELSE d[Len(d)]

\* split_data.py:155-157
train_dir == base_dir \o <<"train">>
val_dir == base_dir \o <<"validation">>
test_dir == base_dir \o <<"test">>

\* split_data.py:220
manifest_path == [dir |-> base_dir, stem |-> 0, ext |-> "json"]

\* Path.rglob("*.json")
Rglob(tree, root) ==
    {p \in DOMAIN tree : p.ext = "json" /\ IsPrefix(root, p.dir)}

\* shutil.rmtree: every file below the directory goes
Rmtree(tree, d) ==
    [p \in {q \in DOMAIN tree : ~IsPrefix(d, q.dir)} |-> tree[p]]

\* Path.exists of a directory: the model keeps no empty directories
DirExists(tree, d) == \E p \in DOMAIN tree : IsPrefix(d, p.dir)

\* the file tree with file p holding content c
WithFile(tree, p, c) ==
    [q \in DOMAIN tree \cup {p} |-> IF q = p THEN c ELSE tree[q]]

(***************************************************************************)
(* The generator behind random.seed and random.shuffle.  The library's     *)
(* generator is stood in for by a small congruential one: its state after  *)
(* seeding is a function of the seed alone, and each draw is a function of *)
(* the state.                                                              *)
(***************************************************************************)
GenStates == 0..10

\* random.seed(seed): the state the generator is left in; `entropy` is the
\* state it was given when the module was imported
\* variant: the generator is left as it was imported
RandomSeedSkipped(s, entropy) == entropy

RandomSeed(s, entropy) == s % 11

NextGen(g) == (3 * g + 5) % 11

\* random.shuffle(x): for i in reversed(range(1, len(x))):
\*                        j = randbelow(i + 1); x[i], x[j] = x[j], x[i]
\* (i is the 1-based position here).  The result is [list, rng].
RECURSIVE ShuffleFrom(_, _, _)
ShuffleFrom(x, i, g) ==
    IF i <= 1 THEN [list |-> x, rng |-> g]
    ELSE LET g2 == NextGen(g)
             j == (g2 % i) + 1
             swapped == [x EXCEPT ![i] = x[j], ![j] = x[i]]
         IN  ShuffleFrom(swapped, i - 1, g2)

Shuffle(x, g) == ShuffleFrom(x, Len(x), g)

(***************************************************************************)
(* Arithmetic and slicing of the split loop.                               *)
(***************************************************************************)
\* int(n * ratio): truncation toward zero of n * k / RatioDen
IntOfProduct(n, k) ==
    IF n * k >= 0 THEN (n * k) \div RatioDen ELSE -((-(n * k)) \div RatioDen)

\* a slice bound as Python normalises it
SliceIndex(i, n) == IF i < 0 THEN Max(i + n, 0) ELSE Min(i, n)

\* x[lo:hi]
Slice(x, lo, hi) ==
    LET a == SliceIndex(lo, Len(x))
        b == SliceIndex(hi, Len(x))
    IN  IF a >= b THEN <<>> ELSE SubSeq(x, a + 1, b)

\* x[lo:]
SliceFrom(x, lo) ==
    LET a == SliceIndex(lo, Len(x))
    IN  IF a >= Len(x) THEN <<>> ELSE SubSeq(x, a + 1, Len(x))

\* split_data.py:119-120
NTrain(n, rt) == IntOfProduct(n, rt)
NVal(n, rv) == IntOfProduct(n, rv)

\* split_data.py:123-125
TypeTrain(files, rt, rv) == Slice(files, 0, NTrain(Len(files), rt))
TypeVal(files, rt, rv) ==
    Slice(files, NTrain(Len(files), rt),
          NTrain(Len(files), rt) + NVal(Len(files), rv))
TypeTest(files, rt, rv) ==
    SliceFrom(files, NTrain(Len(files), rt) + NVal(Len(files), rv))

\* variant: a tolerance of 0.1
RatiosRejectedTenth(rt, rv, rs) == Abs((rt + rv + rs) - RatioDen) * 10 > RatioDen

\* split_data.py:66-67: abs(total_ratio - 1.0) > 0.01
RatiosRejected(rt, rv, rs) == Abs((rt + rv + rs) - RatioDen) * 100 > RatioDen

(***************************************************************************)
(* Record contents.                                                        *)
(***************************************************************************)
DocTypes == {"invoice", "purchase_order"}

\* get_document_type: data.get("document_type", "unknown"); the manifest is a
\* mapping without document_type
get_document_type(tree, p) ==
    IF tree[p] \in DocTypes THEN tree[p] ELSE "unknown"

\* split_data.py:81-86: the groups in the order their type is first met
RECURSIVE GroupBy(_, _, _)
GroupBy(tree, files, acc) ==
    IF files = <<>> THEN acc
    ELSE LET f == Head(files)
             t == get_document_type(tree, f)
             known == \E i \in DOMAIN acc : acc[i].doc_type = t
             acc2 == IF known
                     THEN [i \in DOMAIN acc |->
                             IF acc[i].doc_type = t
                             THEN [acc[i] EXCEPT !.files = Append(@, f)]
                             ELSE acc[i]]
                     ELSE Append(acc, [doc_type |-> t, files |-> <<f>>])
         IN  GroupBy(tree, Tail(files), acc2)

(***************************************************************************)
(* The command lines and file trees the splitter is started on.            *)
(***************************************************************************)
\* --input-dir (an existing directory, click.Path(exists=True); it may hold
\* no file): apart from the destinations, the train destination itself
\* (the default), a directory inside it, and the output base
InputDirs == {<<"all">>, <<"gt", "train">>, <<"gt", "train", "invoices">>, <<"gt">>}
OutputBases == {<<"gt">>}
\* --pdf-dir
pdf_dir == <<"raw">>

Seeds == DefaultSeed .. (DefaultSeed + ExtraSeeds)

RatioValues == {-64, 32, 33, 64, 128}
RatioTriples ==
    {t \in RatioValues \X RatioValues \X RatioValues :
        Abs((t[1] + t[2] + t[3]) - RatioDen) <= MaxSumError}

RecordPath(d, i) == [dir |-> d, stem |-> i, ext |-> "json"]
PdfPath(d, i) == [dir |-> d, stem |-> i, ext |-> "pdf"]

\* n records directly under the input directory, the first k of them
\* invoices and the others purchase orders (discovery takes them in every
\* order, so which stems hold which type does not matter), and the source
\* PDF of the first record under the PDF directory
InitialTrees(d) ==
    {[p \in {RecordPath(d, i) : i \in 1..n}
            \cup {PdfPath(pdf_dir \o <<DirName(d)>>, i) : i \in 1..Min(n, 1)} |->
        IF p.ext = "pdf" THEN "pdf"
        ELSE IF p.stem <= k THEN "invoice" ELSE "purchase_order"] :
     n \in 0..MaxRecords, k \in 0..MaxRecords}

\* no record read yet, no result yet
NoRecord == [kind |-> "none"]
NoResult == [state |-> "none", valid |-> FALSE, issues |-> <<>>]
NoStats == [state |-> "none"]

\* validate_annotation and get_annotation_stats are not called
ValidatorIdle ==
    /\ data = NoRecord
    /\ result = NoResult
    /\ stats = NoStats

\* the validation tool is not running
ValidatorMainIdle ==
    /\ annotation_files = <<>>
    /\ results = <<>>
    /\ validator_pc = "idle"
    /\ validator_exit = -1

NotStarted == [at |-> "idle", split |-> 0]

\* the quality reporter is not running
ReporterIdle ==
    /\ split_dirs = <<>>
    /\ split_data = <<>>
    /\ report = Null
    /\ report_pc = NotStarted

\* the annotation collector is not running
CollectorIdle ==
    /\ raw_pdfs = {}
    /\ output_dir = Null
    /\ ground_truth = <<>>
    /\ unannotated = <<>>
    /\ shown = <<>>
    /\ annotate_i = 0
    /\ collector_pc = "idle"
    /\ sessions = 0
    /\ saved = <<>>

\* no Settings object is being built
SettingsIdle ==
    /\ environ = <<>>
    /\ init_kwargs = <<>>
    /\ settings = Null

InitLocals ==
    /\ json_files = <<>>
    /\ by_type = <<>>
    /\ gi = 1
    /\ train_files = <<>>
    /\ val_files = <<>>
    /\ test_files = <<>>
    /\ ci = 1
    /\ seen_types = <<>>

Init ==
    /\ input_path \in InputDirs
    /\ base_dir \in OutputBases
    /\ \E t \in RatioTriples :
          /\ train_ratio = t[1]
          /\ val_ratio = t[2]
          /\ test_ratio = t[3]
    /\ seed \in Seeds
    /\ copy_pdfs \in BOOLEAN
    /\ fs \in InitialTrees(input_path)
    /\ fs0 = fs
    /\ rng = 0
    /\ InitLocals
    /\ pc = "start"
    /\ exit_status = -1
    /\ exception = "none"
    /\ console = {}
    /\ manifest = Null
    /\ prev = Null
    /\ ValidatorIdle
    /\ ValidatorMainIdle
    /\ ReporterIdle
    /\ CollectorIdle
    /\ SettingsIdle

(***************************************************************************)
(* main of split_data.py, one action per stretch of the code.              *)
(***************************************************************************)
\* split_data.py:56-69: seed the generator, check the ratio sum.  `sys` is
\* not imported by the module, so line 69 raises NameError after the error
\* was printed; the interpreter ends with a traceback and status 1.
Begin ==
    /\ pc = "start"
    /\ \E entropy \in GenStates : rng' = RandomSeed(seed, entropy)
    /\ IF RatiosRejected(train_ratio, val_ratio, test_ratio)
       THEN /\ console' = console \cup {"ratio_error"}
            /\ pc' = "crashed"
            /\ exception' = "NameError"
            /\ exit_status' = 1
       ELSE /\ pc' = "discover"
            /\ UNCHANGED <<console, exception, exit_status>>
    /\ UNCHANGED <<splitArgs, fs, fs0, splitLocals, manifest, seen_types,
                   prev, otherTools>>

\* variant: the empty discovery is not noticed
NoAnnotationsUnchecked(files) == FALSE

\* split_data.py:74: if not json_files
NoAnnotations(files) == files = <<>>

\* split_data.py:72-78: discovery, in whatever order the file system gives
Discover ==
    /\ pc = "discover"
    /\ \E order \in Orderings(Rglob(fs, input_path)) : json_files' = order
    /\ IF NoAnnotations(json_files')
       THEN /\ console' = console \cup {"no_files"}
            /\ pc' = "returned"
            /\ exit_status' = 0
       ELSE /\ pc' = "group"
            /\ UNCHANGED <<console, exit_status>>
    /\ prev' = IF prev # Null /\ prev.json_files = json_files' THEN prev ELSE Null
    /\ UNCHANGED <<splitArgs, fs, fs0, rng, by_type, gi, train_files,
                   val_files, test_files, ci, exception, manifest, seen_types,
                   otherTools>>

\* split_data.py:102
MinSamples(groups) ==
    CHOOSE m \in {Len(groups[i].files) : i \in DOMAIN groups} :
        \A i \in DOMAIN groups : m <= Len(groups[i].files)

\* split_data.py:81-112: group by type, warn about a small group (min of
\* no group raises ValueError)
Group ==
    /\ pc = "group"
    /\ by_type' = GroupBy(fs, json_files, <<>>)
    /\ seen_types' = [i \in DOMAIN json_files |-> get_document_type(fs, json_files[i])]
    /\ gi' = 1
    /\ IF by_type' = <<>>
       THEN /\ pc' = "crashed"
            /\ exception' = "ValueError"
            /\ exit_status' = 1
            /\ UNCHANGED console
       ELSE /\ console' = IF MinSamples(by_type') < 3
                          THEN console \cup {"few_samples"} ELSE console
            /\ pc' = "split"
            /\ UNCHANGED <<exception, exit_status>>
    /\ UNCHANGED <<splitArgs, fs, fs0, rng, json_files, train_files, val_files,
                   test_files, ci, manifest, prev, otherTools>>

\* split_data.py:114-131: one iteration of the split loop
SplitType ==
    /\ pc = "split"
    /\ gi <= Len(by_type)
    /\ LET sh == Shuffle(by_type[gi].files, rng)
           files == sh.list
       IN  /\ rng' = sh.rng
           /\ by_type' = [by_type EXCEPT ![gi].files = files]
           /\ train_files' = train_files \o TypeTrain(files, train_ratio, val_ratio)
           /\ val_files' = val_files \o TypeVal(files, train_ratio, val_ratio)
           /\ test_files' = test_files \o TypeTest(files, train_ratio, val_ratio)
    /\ gi' = gi + 1
    /\ pc' = IF gi' > Len(by_type) THEN "confirm" ELSE "split"
    /\ UNCHANGED <<splitArgs, fs, fs0, json_files, ci, exit_status, exception,
                   console, manifest, seen_types, prev, otherTools>>

\* split_data.py:150-152
\* variant: the manifest is written before the answer is looked at
ConfirmWritesManifest ==
    /\ pc = "confirm"
    /\ fs' = WithFile(fs, manifest_path, "manifest")
    /\ \E proceed \in BOOLEAN :
          IF proceed
          THEN /\ pc' = "clear"
               /\ UNCHANGED <<console, exit_status>>
          ELSE /\ console' = console \cup {"cancelled"}
               /\ pc' = "returned"
               /\ exit_status' = 0
    /\ UNCHANGED <<splitArgs, fs0, rng, splitLocals, exception, manifest,
                   seen_types, prev, otherTools>>

\* split_data.py:150-152
Confirm ==
    /\ pc = "confirm"
    /\ \E proceed \in BOOLEAN :
          IF proceed
          THEN /\ pc' = "clear"
               /\ UNCHANGED <<console, exit_status>>
          ELSE /\ console' = console \cup {"cancelled"}
               /\ pc' = "returned"
               /\ exit_status' = 0
    /\ UNCHANGED <<splitArgs, fs, fs0, rng, splitLocals, exception, manifest,
                   seen_types, prev, otherTools>>

\* the copy loops, in the order of the code
CopyList(p) ==
    CASE p = "copy_train" -> train_files
      [] p = "copy_val" -> val_files
      [] p = "copy_test" -> test_files
      [] OTHER -> <<>>

DestDir(p) ==
    CASE p = "copy_train" -> train_dir
      [] p = "copy_val" -> val_dir
      [] OTHER -> test_dir

NextPhase(p) ==
    CASE p = "copy_train" -> "copy_val"
      [] p = "copy_val" -> "copy_test"
      [] OTHER -> "manifest"

\* the position of the next file to copy at or after file i of loop p
RECURSIVE Advance(_, _)
Advance(p, i) ==
    IF p = "manifest" THEN <<p, 1>>
    ELSE IF i <= Len(CopyList(p)) THEN <<p, i>>
    ELSE Advance(NextPhase(p), 1)

\* split_data.py:161-163, for one directory
ClearDir(tree, d) ==
    IF DirExists(tree, d) /\ d # input_path THEN Rmtree(tree, d) ELSE tree

\* split_data.py:155-163
Clear ==
    /\ pc = "clear"
    /\ fs' = ClearDir(ClearDir(ClearDir(fs, train_dir), val_dir), test_dir)
    /\ pc' = Advance("copy_train", 1)[1]
    /\ ci' = Advance("copy_train", 1)[2]
    /\ UNCHANGED <<splitArgs, fs0, rng, json_files, by_type, gi, train_files,
                   val_files, test_files, exit_status, exception, console,
                   manifest, seen_types, prev, otherTools>>

\* split_data.py:170-171 (and 180-181, 190-191)
Target(p, json_file) ==
    [dir |-> DestDir(p) \o RelativeDir(json_file, input_path),
     stem |-> json_file.stem, ext |-> json_file.ext]

\* split_data.py:26-38, called with dst_base = <dest>.parent.parent/raw_splits/<name>
copy_corresponding_pdf(tree, json_path, dest) ==
    LET relative_path == DirName(json_path.dir)
        src_pdf == PdfPath(pdf_dir \o <<relative_path>>, json_path.stem)
        dst_base == Parent(Parent(dest)) \o <<"raw_splits", DirName(dest)>>
        dst_pdf == PdfPath(dst_base \o <<relative_path>>, json_path.stem)
    IN  IF src_pdf \in DOMAIN tree
        THEN WithFile(tree, dst_pdf, tree[src_pdf]) ELSE tree

\* split_data.py:169-196: one iteration of a copy loop.  shutil.copy2 raises
\* SameFileError when source and target are one file and FileNotFoundError
\* when the source is gone; nothing catches either.
CopyFile ==
    /\ pc \in {"copy_train", "copy_val", "copy_test"}
    /\ LET json_file == CopyList(pc)[ci]
           target == Target(pc, json_file)
       IN  IF json_file \notin DOMAIN fs
           THEN /\ pc' = "crashed"
                /\ exception' = "FileNotFoundError"
                /\ exit_status' = 1
                /\ UNCHANGED <<fs, ci>>
           ELSE IF json_file = target
           THEN /\ pc' = "crashed"
                /\ exception' = "SameFileError"
                /\ exit_status' = 1
                /\ UNCHANGED <<fs, ci>>
           ELSE /\ fs' = IF copy_pdfs
                         THEN copy_corresponding_pdf(
                                  WithFile(fs, target, fs[json_file]),
                                  json_file, DestDir(pc))
                         ELSE WithFile(fs, target, fs[json_file])
                /\ pc' = Advance(pc, ci + 1)[1]
                /\ ci' = Advance(pc, ci + 1)[2]
                /\ UNCHANGED <<exception, exit_status>>
    /\ UNCHANGED <<splitArgs, fs0, rng, json_files, by_type, gi, train_files,
                   val_files, test_files, console, manifest, seen_types,
                   prev, otherTools>>

Stems(files) == [i \in DOMAIN files |-> files[i].stem]

\* split_data.py:199-218
Manifest ==
    [seed |-> seed,
     ratios |-> [train |-> train_ratio, validation |-> val_ratio,
                 test |-> test_ratio],
     counts |-> [total |-> Len(json_files), train |-> Len(train_files),
                 validation |-> Len(val_files), test |-> Len(test_files)],
     document_ids |-> [train |-> Stems(train_files),
                       validation |-> Stems(val_files),
                       test |-> Stems(test_files)]]

\* split_data.py:199-238
WriteManifest ==
    /\ pc = "manifest"
    /\ manifest' = Manifest
    /\ fs' = WithFile(fs, manifest_path, "manifest")
    /\ console' = console \cup {"manifest_saved", "complete"}
    /\ pc' = "done"
    /\ exit_status' = 0
    /\ UNCHANGED <<splitArgs, fs0, rng, splitLocals, exception, seen_types,
                   prev, otherTools>>

Terminated == pc \in {"done", "returned", "crashed"}

\* the split loop of the current run has run to its end
SplitComplete == by_type # <<>> /\ gi > Len(by_type)

\* The same command line is run again in a new process, after a run that
\* made its partition and left the file tree as it found it (it was declined
\* at the confirmation).  The partition of that run is remembered for as
\* long as the new run discovers the same files in the same order.
Rerun ==
    /\ Terminated
    /\ SplitComplete
    /\ fs = fs0
    /\ prev = Null
    /\ prev' = [json_files |-> json_files, seen_types |-> seen_types,
                train |-> train_files, validation |-> val_files,
                test |-> test_files]
    /\ rng' = 0
    /\ json_files' = <<>>
    /\ by_type' = <<>>
    /\ gi' = 1
    /\ train_files' = <<>>
    /\ val_files' = <<>>
    /\ test_files' = <<>>
    /\ ci' = 1
    /\ seen_types' = <<>>
    /\ pc' = "start"
    /\ exit_status' = -1
    /\ exception' = "none"
    /\ console' = {}
    /\ UNCHANGED <<splitArgs, fs, fs0, manifest, otherTools>>

Next ==
    \/ Begin
    \/ Discover
    \/ Group
    \/ SplitType
    \/ Confirm
    \/ Clear
    \/ CopyFile
    \/ WriteManifest
    \/ Rerun

Spec == Init /\ [][Next]_vars

(***************************************************************************)
(* The splitter started with the default ratios on an input directory that *)
(* holds a record file which does not parse.                               *)
(***************************************************************************)
\* one to MaxRecords record files, each an invoice, a purchase order or
\* unparsable, at least one of them unparsable
MalformedTrees(d) ==
    UNION {{[p \in {RecordPath(d, i) : i \in 1..n} |-> kinds[p.stem]] :
               kinds \in {k \in [1..n -> DocTypes \cup {"unparsable"}] :
                             \E i \in 1..n : k[i] = "unparsable"}} :
           n \in 1..MaxRecords}

InitMalformed ==
    /\ input_path = <<"all">>
    /\ base_dir \in OutputBases
    /\ train_ratio = 64
    /\ val_ratio = 32
    /\ test_ratio = 32
    /\ seed \in Seeds
    /\ copy_pdfs \in BOOLEAN
    /\ fs \in MalformedTrees(input_path)
    /\ fs0 = fs
    /\ rng = 0
    /\ InitLocals
    /\ pc = "start"
    /\ exit_status = -1
    /\ exception = "none"
    /\ console = {}
    /\ manifest = Null
    /\ prev = Null
    /\ ValidatorIdle
    /\ ValidatorMainIdle
    /\ ReporterIdle
    /\ CollectorIdle
    /\ SettingsIdle

SpecMalformed == InitMalformed /\ [][Next]_vars

(***************************************************************************)
(* validate_annotations.py.  A parsed JSON value is a record with its kind:*)
(* a mapping carries its items (a function from its keys), a string its    *)
(* text.  A file that does not parse is the value of kind "unparsable".    *)
(***************************************************************************)
JStr(text) == [kind |-> "str", str |-> text]
JDict(f) == [kind |-> "dict", items |-> f]
JList == [kind |-> "list"]
JNull == [kind |-> "null"]
JNum == [kind |-> "num"]
JBool == [kind |-> "bool"]
Unparsable == [kind |-> "unparsable"]
\* a file whose bytes are not UTF-8: open/read raises before the parser runs
Unreadable == [kind |-> "unreadable"]

IsDict(v) == v.kind = "dict"

\* key in v, for a mapping or an (empty) list
Has(v, key) == IsDict(v) /\ key \in DOMAIN v.items

\* validate_annotations.py:30
required_top_level == <<"document_id", "filename", "document_type", "entities">>
\* validate_annotations.py:37
valid_types == <<"invoice", "purchase_order", "shipping_order">>

Issue(rule, args) == [rule |-> rule, args |-> args]

\* validate_annotations.py:31-33
RECURSIVE RequiredFieldIssuesFrom(_, _)
RequiredFieldIssuesFrom(d, i) ==
    IF i > Len(required_top_level) THEN <<>>
    ELSE (IF ~Has(d, required_top_level[i])
          THEN <<Issue("missing_field", <<JStr(required_top_level[i])>>)>>
          ELSE <<>>) \o RequiredFieldIssuesFrom(d, i + 1)

RequiredFieldIssues(d) == RequiredFieldIssuesFrom(d, 1)

\* validate_annotations.py:36-39
DocumentTypeIssues(d) ==
    IF Has(d, "document_type")
          /\ d.items["document_type"] \notin {JStr(valid_types[i]) : i \in DOMAIN valid_types}
    THEN <<Issue("invalid_document_type", <<d.items["document_type"]>>)>>
    ELSE <<>>

\* validate_annotations.py:49-51
MismatchIssues(d, entities) ==
    IF Has(entities, "document_type") /\ Has(d, "document_type")
          /\ entities.items["document_type"] # d.items["document_type"]
    THEN <<Issue("mismatched_document_type",
                 <<d.items["document_type"], entities.items["document_type"]>>)>>
    ELSE <<>>

\* variant: the identifier rule follows the tag inside entities
IdentifierIssuesByEntitiesTag(d, entities) ==
    LET doc_type == IF Has(entities, "document_type")
                    THEN entities.items["document_type"] ELSE JNull
        key == CASE doc_type = JStr("invoice") -> "invoice_number"
                 [] doc_type = JStr("purchase_order") -> "po_number"
                 [] OTHER -> "order_number"
    IN  IF doc_type \in {JStr("invoice"), JStr("purchase_order"),
                         JStr("shipping_order")} /\ ~Has(entities, key)
        THEN <<Issue("missing_identifier", <<JStr(key)>>)>>
        ELSE <<>>

\* variant: the identifier of any type satisfies the rule
IdentifierIssuesAnyIdentifier(d, entities) ==
    LET doc_type == IF Has(d, "document_type") THEN d.items["document_type"] ELSE JNull
        key == CASE doc_type = JStr("invoice") -> "invoice_number"
                 [] doc_type = JStr("purchase_order") -> "po_number"
                 [] OTHER -> "order_number"
    IN  IF doc_type \in {JStr("invoice"), JStr("purchase_order"),
                         JStr("shipping_order")}
           /\ ~\E k \in {"invoice_number", "po_number", "order_number"} :
                  Has(entities, k)
        THEN <<Issue("missing_identifier", <<JStr(key)>>)>>
        ELSE <<>>

\* validate_annotations.py:54-66; doc_type is data.get("document_type")
IdentifierIssues(d, entities) ==
    LET doc_type == IF Has(d, "document_type") THEN d.items["document_type"] ELSE JNull
    IN  IF doc_type = JStr("invoice")
        THEN (IF ~Has(entities, "invoice_number")
              THEN <<Issue("missing_identifier", <<JStr("invoice_number")>>)>>
              ELSE <<>>)
        ELSE IF doc_type = JStr("purchase_order")
        THEN (IF ~Has(entities, "po_number")
              THEN <<Issue("missing_identifier", <<JStr("po_number")>>)>>
              ELSE <<>>)
        ELSE IF doc_type = JStr("shipping_order")
        THEN (IF ~Has(entities, "order_number")
              THEN <<Issue("missing_identifier", <<JStr("order_number")>>)>>
              ELSE <<>>)
        ELSE <<>>

\* variant: only a mapping with no field at all is empty
EmptyEntitiesIssuesNoneOnly(entities) ==
    IF Cardinality(DOMAIN entities.items) < 1
    THEN <<Issue("empty_entities", <<>>)>> ELSE <<>>

\* variant: empty means no field other than the type tag
EmptyEntitiesIssuesTagOnly(entities) ==
    IF DOMAIN entities.items \subseteq {"document_type"}
    THEN <<Issue("empty_entities", <<>>)>> ELSE <<>>

\* validate_annotations.py:69-70
EmptyEntitiesIssues(entities) ==
    IF Cardinality(DOMAIN entities.items) <= 1
    THEN <<Issue("empty_entities", <<>>)>> ELSE <<>>

\* variant: the checks on entities stop at the first issue
EntitiesIssuesFailFast(d) ==
    IF Has(d, "entities")
    THEN LET entities == d.items["entities"]
         IN  IF ~IsDict(entities)
             THEN <<Issue("entities_not_dict", <<>>)>>
             ELSE IF MismatchIssues(d, entities) # <<>>
             THEN MismatchIssues(d, entities)
             ELSE IF IdentifierIssues(d, entities) # <<>>
             THEN IdentifierIssues(d, entities)
             ELSE EmptyEntitiesIssues(entities)
    ELSE <<>>

\* validate_annotations.py:42-70
EntitiesIssues(d) ==
    IF Has(d, "entities")
    THEN LET entities == d.items["entities"]
         IN  IF ~IsDict(entities)
             THEN <<Issue("entities_not_dict", <<>>)>>
             ELSE MismatchIssues(d, entities) \o IdentifierIssues(d, entities)
                     \o EmptyEntitiesIssues(entities)
    ELSE <<>>

\* variant: annotation_metadata is not looked at
MetadataIssuesSkipped(d) == <<>>

\* validate_annotations.py:73-76
MetadataIssues(d) ==
    IF Has(d, "annotation_metadata") /\ ~IsDict(d.items["annotation_metadata"])
    THEN <<Issue("metadata_not_dict", <<>>)>>
    ELSE <<>>

\* variant: a file that cannot be read or parsed is checked as an empty
\* mapping
validate_annotationParsedAsEmpty(d) ==
    IF d.kind \in {"unparsable", "unreadable"}
    THEN LET issues == RequiredFieldIssues(JDict(<<>>))
         IN  [state |-> "returned", valid |-> FALSE, issues |-> issues]
    ELSE IF d.kind \notin {"dict", "list", "str"}
    THEN [state |-> "TypeError", valid |-> FALSE, issues |-> <<>>]
    ELSE LET issues == RequiredFieldIssues(d) \o DocumentTypeIssues(d)
                          \o EntitiesIssues(d) \o MetadataIssues(d)
         IN  [state |-> "returned", valid |-> Len(issues) = 0, issues |-> issues]

\* validate_annotations.py:16-78.  `field not in data` raises TypeError for
\* a top-level value that is no container (null, a number, a boolean); on a
\* list it is an element test and on a string a substring test, which no
\* field name passes on the empty list and the one-character string.
validate_annotation(d) ==
    IF d.kind = "unparsable"
    THEN [state |-> "returned", valid |-> FALSE,
          issues |-> <<Issue("invalid_json", <<>>)>>]
    ELSE IF d.kind = "unreadable"
    THEN [state |-> "returned", valid |-> FALSE,
          issues |-> <<Issue("error_reading_file", <<>>)>>]
    ELSE IF d.kind \notin {"dict", "list", "str"}
    THEN [state |-> "TypeError", valid |-> FALSE, issues |-> <<>>]
    ELSE LET issues == RequiredFieldIssues(d) \o DocumentTypeIssues(d)
                          \o EntitiesIssues(d) \o MetadataIssues(d)
         IN  [state |-> "returned", valid |-> Len(issues) = 0, issues |-> issues]

\* len(v) is defined: v is a mapping, a list or a string
Sized(v) == v.kind \in {"dict", "list", "str"}

\* len(v); the lists of the model are empty and its strings one character
SizeOf(v) ==
    CASE v.kind = "dict" -> Cardinality(DOMAIN v.items)
      [] v.kind = "list" -> 0
      [] OTHER -> 1

\* `key in v` for a sized v; no key of the model is an element of the
\* empty list or a substring of a one-character string
In(key, v) == Has(v, key)

\* data.get(key, default) for a mapping
Get(d, key, default) == IF Has(d, key) THEN d.items[key] ELSE default

\* validate_annotations.py:92-96.  len of a line_items / cargo_items value
\* that is not sized raises TypeError
ItemsValue(entities) ==
    IF In("line_items", entities) THEN entities.items["line_items"]
    ELSE IF In("cargo_items", entities) THEN entities.items["cargo_items"]
    ELSE JList

\* validate_annotations.py:102-103
has_seller_buyer(entities) ==
    \/ In("seller", entities)
    \/ In("buyer", entities)
    \/ In("shipper", entities)
    \/ In("consignee", entities)

\* validate_annotations.py:104-105
has_amounts(entities) ==
    \/ In("total", entities)
    \/ In("subtotal", entities)
    \/ In("total_weight", entities)

\* the empty dictionary
EmptyDict == <<>>
IsEmpty(v) == DOMAIN v = {}

\* variant: nothing is caught
get_annotation_statsUncaught(d) ==
    IF d.kind \in {"unparsable", "unreadable"}
    THEN [state |-> "JSONDecodeError", value |-> EmptyDict]
    ELSE IF ~IsDict(d)
    THEN [state |-> "AttributeError", value |-> EmptyDict]
    ELSE LET entities == Get(d, "entities", JDict(<<>>))
         IN  IF ~Sized(entities) \/ ~Sized(ItemsValue(entities))
             THEN [state |-> "TypeError", value |-> EmptyDict]
             ELSE [state |-> "returned",
                   value |-> [document_type |-> Get(d, "document_type", JStr("unknown")),
                              field_count |-> SizeOf(entities),
                              items_count |-> SizeOf(ItemsValue(entities)),
                              has_seller_buyer |-> has_seller_buyer(entities),
                              has_amounts |-> has_amounts(entities)]]

\* validate_annotations.py:80-108.  Whatever is raised on the way (the file
\* does not parse, data has no .get, entities or the items value has no
\* len) is caught at line 107 and the empty dictionary is returned.
get_annotation_stats(d) ==
    IF ~IsDict(d)
    THEN [state |-> "returned", value |-> EmptyDict]
    ELSE LET entities == Get(d, "entities", JDict(<<>>))
         IN  IF ~Sized(entities) \/ ~Sized(ItemsValue(entities))
             THEN [state |-> "returned", value |-> EmptyDict]
             ELSE [state |-> "returned",
                   value |-> [document_type |-> Get(d, "document_type", JStr("unknown")),
                              field_count |-> SizeOf(entities),
                              items_count |-> SizeOf(ItemsValue(entities)),
                              has_seller_buyer |-> has_seller_buyer(entities),
                              has_amounts |-> has_amounts(entities)]]

\* data_quality_report.py:48
company_keys == <<"seller", "buyer", "shipper", "consignee", "supplier">>
\* data_quality_report.py:52
amount_keys == <<"total", "subtotal", "tax", "total_weight">>

\* any(k in entities for k in keys)
AnyIn(keys, entities) == \E i \in DOMAIN keys : In(keys[i], entities)

\* data_quality_report.py:31-56, the body of the loop over the files of a
\* split for one file: what the file adds to the counters.  Whatever is
\* raised is caught at line 55, and the counters keep what was added before:
\* data.get raises before anything is counted, len(entities) after the type
\* is counted, len of the items value after the field count is appended.
AnalyzeRecord(d) ==
    LET entities == Get(d, "entities", JDict(<<>>))
        typed == IsDict(d)
        measured == typed /\ Sized(entities)
        completed == measured /\ Sized(ItemsValue(entities))
    IN  [typed |-> typed,
         doc_type |-> IF typed THEN Get(d, "document_type", JStr("unknown"))
                      ELSE JNull,
         measured |-> measured,
         field_count |-> IF measured THEN SizeOf(entities) ELSE 0,
         items |-> IF completed THEN SizeOf(ItemsValue(entities)) ELSE 0,
         has_company_info |-> completed /\ AnyIn(company_keys, entities),
         has_amounts |-> completed /\ AnyIn(amount_keys, entities)]

(***************************************************************************)
(* The record files the validator is run on.                               *)
(***************************************************************************)
TopKeys == {"document_id", "filename", "document_type", "entities",
            "annotation_metadata"}
\* the three types of the schema and one outside it
DocTypeValues == {"invoice", "purchase_order", "shipping_order", "receipt"}
EntityKeys == {"document_type", "invoice_number", "po_number", "order_number",
               "total", "seller", "supplier", "tax", "line_items"}

EntityDicts ==
    {JDict([k \in K |-> CASE k = "document_type" -> JStr(t)
                           [] k = "line_items" -> JList
                           [] OTHER -> JStr("v")]) :
        K \in {K \in SUBSET EntityKeys : Cardinality(K) <= MaxEntityFields},
        t \in DocTypeValues}

EntityValues == EntityDicts \cup {JList, JNull, JStr("v")}
MetadataValues == {JDict(<<>>), JStr("v")}

DictRecords ==
    {JDict([k \in K |->
              CASE k = "document_type" -> JStr(t)
                [] k = "entities" -> e
                [] k = "annotation_metadata" -> m
                [] OTHER -> JStr("x")]) :
        K \in SUBSET TopKeys, t \in DocTypeValues, e \in EntityValues,
        m \in MetadataValues}

Records ==
    DictRecords \cup {JList, JStr("v"), JNum, JBool, JNull, Unparsable, Unreadable}

\* the splitter is not running
SplitterIdle ==
    /\ input_path = <<>>
    /\ base_dir = <<>>
    /\ train_ratio = 0
    /\ val_ratio = 0
    /\ test_ratio = 0
    /\ seed = 0
    /\ copy_pdfs = FALSE
    /\ fs = <<>>
    /\ fs0 = <<>>
    /\ rng = 0
    /\ InitLocals
    /\ pc = "idle"
    /\ exit_status = -1
    /\ exception = "none"
    /\ console = {}
    /\ manifest = Null
    /\ prev = Null

InitValidator ==
    /\ SplitterIdle
    /\ ValidatorMainIdle
    /\ ReporterIdle
    /\ CollectorIdle
    /\ SettingsIdle
    /\ data \in Records
    /\ result = NoResult
    /\ stats = NoStats

\* validate_annotation is called on the record
Validate ==
    /\ result.state = "none"
    /\ result' = validate_annotation(data)
    /\ UNCHANGED <<splitArgs, fs, fs0, rng, splitLocals, splitOutcome,
                   manifest, seen_types, prev, data, stats, validatorMain,
                   reportVars,
                   laterTools>>

\* get_annotation_stats is called on the record
Stats ==
    /\ stats.state = "none"
    /\ stats' = get_annotation_stats(data)
    /\ UNCHANGED <<splitArgs, fs, fs0, rng, splitLocals, splitOutcome,
                   manifest, seen_types, prev, data, result, validatorMain,
                   reportVars,
                   laterTools>>

NextValidator ==
    \/ Validate
    \/ Stats

SpecValidator == InitValidator /\ [][NextValidator]_vars

(***************************************************************************)
(* validate_annotations.py, main: the validation tool run on a directory.  *)
(* annotation_files is what rglob found, in the order it found it, each    *)
(* file as the value its content parses to.                                *)
(***************************************************************************)
\* a well-formed invoice, and files that are not well formed in the ways
\* main tells apart: issues from the rules, a file that does not parse, a
\* top-level list, a top-level null
SampleFiles ==
    { JDict([k \in {"document_id", "filename", "document_type", "entities"} |->
               CASE k = "document_type" -> JStr("invoice")
                 [] k = "entities" ->
                      JDict([e \in {"document_type", "invoice_number", "total"} |->
                               IF e = "document_type" THEN JStr("invoice")
                               ELSE JStr("v")])
                 [] OTHER -> JStr("x")]),
      JDict([k \in {"document_id", "filename", "document_type", "entities"} |->
               CASE k = "document_type" -> JStr("purchase_order")
                 [] k = "entities" -> JDict([e \in {"supplier"} |-> JStr("v")])
                 [] OTHER -> JStr("x")]),
      Unparsable, JList, JNull }

DiscoveredFiles ==
    UNION {[1..n -> SampleFiles] : n \in 0..MaxAnnotationFiles}

ValidatorMainEnded == validator_pc \in {"returned", "exited", "crashed"}

InitValidateMain ==
    /\ annotation_files \in DiscoveredFiles
    /\ results = <<>>
    /\ validator_pc = "start"
    /\ validator_exit = -1

\* validate_annotations.py:117-130
FindFiles ==
    /\ validator_pc = "start"
    /\ IF annotation_files = <<>>
       THEN /\ validator_pc' = "returned"
            /\ validator_exit' = 0
       ELSE /\ validator_pc' = "loop"
            /\ UNCHANGED validator_exit
    /\ UNCHANGED <<annotation_files, results, splitArgs, fs, fs0, rng,
                   splitLocals, splitOutcome, manifest, seen_types, prev,
                   validatorVars, reportVars,
                   laterTools>>

\* validate_annotations.py:137-153, one turn of the loop.  An exception
\* that leaves validate_annotation ends the process with a traceback and
\* exit status 1.
ValidateFile ==
    /\ validator_pc = "loop"
    /\ Len(results) < Len(annotation_files)
    /\ LET json_file == annotation_files[Len(results) + 1]
           checked == validate_annotation(json_file)
       IN  IF checked.state # "returned"
           THEN /\ validator_pc' = "crashed"
                /\ validator_exit' = 1
                /\ UNCHANGED results
           ELSE /\ results' = Append(results,
                                     [valid |-> checked.valid,
                                      issues |-> checked.issues,
                                      stats |-> get_annotation_stats(json_file).value])
                /\ UNCHANGED <<validator_pc, validator_exit>>
    /\ UNCHANGED <<annotation_files, splitArgs, fs, fs0, rng, splitLocals,
                   splitOutcome, manifest, seen_types, prev, validatorVars,
                   reportVars,
                   laterTools>>

\* validate_annotations.py:156
valid_count(rs) == Cardinality({i \in DOMAIN rs : rs[i].valid})

\* variant: the tool always reports success
ExitStatusAlwaysZero(valid, total) == 0

\* validate_annotations.py:210-222
ExitStatus(valid, total) == IF valid = total THEN 0 ELSE 1

\* validate_annotations.py:155-222: the tables, the verdict and sys.exit
Summarize ==
    /\ validator_pc = "loop"
    /\ Len(results) = Len(annotation_files)
    /\ validator_pc' = "exited"
    /\ validator_exit' = ExitStatus(valid_count(results), Len(results))
    /\ UNCHANGED <<annotation_files, results, splitArgs, fs, fs0, rng,
                   splitLocals, splitOutcome, manifest, seen_types, prev,
                   validatorVars, reportVars,
                   laterTools>>

\* the exit status of the two tools that signal failure: the validation
\* tool run to its end, and the splitter up to its check of the ratios
InitExitStatus ==
    \/ /\ Init
    \/ /\ SplitterIdle
       /\ ValidatorIdle
       /\ ReporterIdle
       /\ CollectorIdle
       /\ SettingsIdle
       /\ InitValidateMain

NextExitStatus ==
    \/ Begin
    \/ FindFiles
    \/ ValidateFile
    \/ Summarize

SpecExitStatus == InitExitStatus /\ [][NextExitStatus]_vars

(***************************************************************************)
(* data_quality_report.py.  A split directory holds some number of files   *)
(* of each of three contents: an invoice that names its seller, a purchase *)
(* order with no company field, and a file that does not parse.            *)
(***************************************************************************)
ReportSamples ==
    << JDict([k \in {"document_id", "filename", "document_type", "entities"} |->
                CASE k = "document_type" -> JStr("invoice")
                  [] k = "entities" ->
                       JDict([e \in {"document_type", "invoice_number", "seller"} |->
                                IF e = "document_type" THEN JStr("invoice")
                                ELSE JStr("v")])
                  [] OTHER -> JStr("x")]),
       JDict([k \in {"document_id", "filename", "document_type", "entities"} |->
                CASE k = "document_type" -> JStr("purchase_order")
                  [] k = "entities" ->
                       JDict([e \in {"document_type", "po_number", "total"} |->
                                IF e = "document_type" THEN JStr("purchase_order")
                                ELSE JStr("v")])
                  [] OTHER -> JStr("x")]),
       Unparsable >>

\* data_quality_report.py:83
splits == <<"train", "validation", "test">>

\* data_quality_report.py:89: the directory of the split does not exist
MissingDir == [exists |-> FALSE, files |-> <<0, 0, 0>>]

\* the numbers of files of each content a directory may hold
FileCounts(split) ==
    CASE split = "train" -> {0, 5, 10} \X {0, 5, 10} \X (0..MaxUnparsable)
      [] split = "validation" -> {0, 3, 5} \X {0, 3, 5} \X (0..MaxUnparsable)
      [] OTHER -> {0, 5} \X {0, 5} \X {0}

SplitDirs(split) ==
    {MissingDir} \cup {[exists |-> TRUE, files |-> c] : c \in FileCounts(split)}

RECURSIVE SumOver(_, _)
SumOver(S, f) ==
    IF S = {} THEN 0
    ELSE LET x == CHOOSE x \in S : TRUE
         IN  f[x] + SumOver(S \ {x}, f)

\* what each content adds to the counters
Analyzed == [i \in DOMAIN ReportSamples |-> AnalyzeRecord(ReportSamples[i])]

\* the number of files of dir whose content passes
FilesWhere(dir, pass) ==
    SumOver(DOMAIN ReportSamples,
            [i \in DOMAIN ReportSamples |-> IF pass[i] THEN dir.files[i] ELSE 0])

\* len(json_files)
FileCount(dir) == FilesWhere(dir, [i \in DOMAIN ReportSamples |-> TRUE])

\* data_quality_report.py:24,35-36: the Counter of the document types
DocTypesCounter(dir) ==
    LET seen == {Analyzed[i].doc_type :
                    i \in {i \in DOMAIN ReportSamples :
                              dir.files[i] > 0 /\ Analyzed[i].typed}}
    IN  [t \in seen |->
           FilesWhere(dir, [i \in DOMAIN ReportSamples |->
                               Analyzed[i].typed /\ Analyzed[i].doc_type = t])]

\* data_quality_report.py:16-65; None for a directory without a record file
analyze_split(dir) ==
    IF FileCount(dir) = 0
    THEN Null
    ELSE [total_docs |-> FileCount(dir),
          doc_types |-> DocTypesCounter(dir),
          total_items |-> SumOver(DOMAIN ReportSamples,
                                  [i \in DOMAIN ReportSamples |->
                                      dir.files[i] * Analyzed[i].items]),
          has_company_info |->
              FilesWhere(dir, [i \in DOMAIN ReportSamples |-> Analyzed[i].has_company_info]),
          has_amounts |->
              FilesWhere(dir, [i \in DOMAIN ReportSamples |-> Analyzed[i].has_amounts])]

InitReport ==
    /\ split_dirs \in {[train |-> t, validation |-> v, test |-> e] :
                           t \in SplitDirs("train"), v \in SplitDirs("validation"),
                           e \in SplitDirs("test")}
    /\ split_data = <<>>
    /\ report = Null
    /\ report_pc = [at |-> "analyze", split |-> 1]

\* data_quality_report.py:86-98, one turn of the loop over the splits
AnalyzeSplit ==
    /\ report_pc.at = "analyze"
    /\ report_pc.split <= Len(splits)
    /\ LET split == splits[report_pc.split]
           split_dir == split_dirs[split]
       IN  IF split_dir.exists /\ analyze_split(split_dir) # Null
           THEN split_data' = Append(split_data,
                                     [split |-> split, stats |-> analyze_split(split_dir)])
           ELSE UNCHANGED split_data
    /\ report_pc' = [report_pc EXCEPT !.split = @ + 1]
    /\ UNCHANGED <<split_dirs, report, splitArgs, fs, fs0, rng, splitLocals,
                   splitOutcome, manifest, seen_types, prev, validatorVars,
                   validatorMain,
                   laterTools>>

\* data_quality_report.py:100-102
NoData ==
    /\ report_pc.at = "analyze"
    /\ report_pc.split > Len(splits)
    /\ split_data = <<>>
    /\ report_pc' = [report_pc EXCEPT !.at = "returned"]
    /\ UNCHANGED <<split_dirs, split_data, report, splitArgs, fs, fs0, rng,
                   splitLocals, splitOutcome, manifest, seen_types, prev,
                   validatorVars, validatorMain,
                   laterTools>>

\* data_quality_report.py:190
doc_counts(sd) == [i \in DOMAIN sd |-> sd[i].stats.total_docs]
\* data_quality_report.py:191
max_count(sd) == CHOOSE m \in Range(doc_counts(sd)) : \A c \in Range(doc_counts(sd)) : c <= m
\* data_quality_report.py:192
min_count(sd) == CHOOSE m \in Range(doc_counts(sd)) : \A c \in Range(doc_counts(sd)) : m <= c

\* variant: a set smaller than the largest one is imbalanced
ImbalancedWhenSmaller(lo, hi) == hi > 0 /\ lo < hi

\* data_quality_report.py:194: max_count > 0 and min_count / max_count < 0.5;
\* the quotient of two such integers is below 0.5 exactly when twice the
\* numerator is below the denominator
Imbalanced(lo, hi) == hi > 0 /\ 2 * lo < hi

\* data_quality_report.py:189-198: the line written for check 1
BalanceLine(sd) ==
    IF Len(sd) >= 2
    THEN (IF Imbalanced(min_count(sd), max_count(sd)) THEN "imbalanced" ELSE "balanced")
    ELSE "none"

\* data_quality_report.py:201-204: the splits warned about
FewTypes(sd) ==
    {sd[i].split : i \in {i \in DOMAIN sd : Cardinality(DOMAIN sd[i].stats.doc_types) < 2}}

\* data_quality_report.py:186-204
all_good(sd) == BalanceLine(sd) # "imbalanced" /\ FewTypes(sd) = {}

\* data_quality_report.py:214
total_all(sd) == SumOver(DOMAIN sd, doc_counts(sd))

\* data_quality_report.py:216-221
SizeLine(total) ==
    IF total < SmallDataset THEN "small"
    ELSE IF total < GoodDataset THEN "moderate"
    ELSE "good"

\* data_quality_report.py:226-231: avg_company < 0.5, as twice the sum of
\* has_company_info against the sum of total_docs
CompanyLine(sd) ==
    IF 2 * SumOver(DOMAIN sd, [i \in DOMAIN sd |-> sd[i].stats.has_company_info])
          < total_all(sd)
    THEN "low" ELSE "good"

\* data_quality_report.py:236-241
Status(good, total) ==
    IF good /\ total >= SmallDataset THEN "READY FOR TRAINING"
    ELSE IF total < SmallDataset THEN "MORE DATA RECOMMENDED"
    ELSE "REVIEW WARNINGS"

\* data_quality_report.py:104-261: the tables, the report file with its
\* quality checks, recommendations and status, and the closing panel
WriteReport ==
    /\ report_pc.at = "analyze"
    /\ report_pc.split > Len(splits)
    /\ split_data # <<>>
    /\ report' = [balance |-> BalanceLine(split_data),
                  few_types |-> FewTypes(split_data),
                  all_good |-> all_good(split_data),
                  size |-> SizeLine(total_all(split_data)),
                  company |-> CompanyLine(split_data),
                  status |-> Status(all_good(split_data), total_all(split_data)),
                  panel |-> IF total_all(split_data) >= SmallDataset
                            THEN "GOOD" ELSE "NEEDS MORE DATA"]
    /\ report_pc' = [report_pc EXCEPT !.at = "done"]
    /\ UNCHANGED <<split_dirs, split_data, splitArgs, fs, fs0, rng,
                   splitLocals, splitOutcome, manifest, seen_types, prev,
                   validatorVars, validatorMain,
                   laterTools>>

InitReporter ==
    /\ SplitterIdle
    /\ ValidatorIdle
    /\ ValidatorMainIdle
    /\ InitReport
    /\ CollectorIdle
    /\ SettingsIdle

NextReporter ==
    \/ AnalyzeSplit
    \/ NoData
    \/ WriteReport

SpecReporter == InitReporter /\ [][NextReporter]_vars

(***************************************************************************)
(* annotate_documents.py: the annotation collector.  A source file is its  *)
(* directory below the data directory, its stem and its extension; the     *)
(* ground-truth directory is a function from the record paths that exist   *)
(* (directory below the output directory, stem) to the JSON text of the    *)
(* file.  A name is an atomic string; Spelling gives its characters, which *)
(* is what the classification looks at.                                    *)
(***************************************************************************)
\* the source files of a data directory, and the sessions one run of the
\* model goes through
MaxPdfs == 2
MaxSessions == 2

UpperCase == <<"A", "B", "C", "D", "E", "F", "G", "H", "I", "J", "K", "L", "M",
               "N", "O", "P", "Q", "R", "S", "T", "U", "V", "W", "X", "Y", "Z">>
LowerCase == <<"a", "b", "c", "d", "e", "f", "g", "h", "i", "j", "k", "l", "m",
               "n", "o", "p", "q", "r", "s", "t", "u", "v", "w", "x", "y", "z">>

\* str.lower, one character
LowerChar(c) ==
    IF \E i \in DOMAIN UpperCase : UpperCase[i] = c
    THEN LowerCase[CHOOSE i \in DOMAIN UpperCase : UpperCase[i] = c]
    ELSE c

\* str.lower
Lower(s) == [i \in DOMAIN s |-> LowerChar(s[i])]

\* sub in s
Contains(sub, s) ==
    \E i \in 1..(Len(s) - Len(sub) + 1) : SubSeq(s, i, i + Len(sub) - 1) = sub

\* the characters of the names the sample trees use
Spelling ==
    [n \in {"data/raw", "invoices", "po", "docs", "PO7", "BOL3", "scan",
            "purchase5", "shipping2", "notes", "pdf", "txt"} |->
        CASE n = "data/raw" -> <<"d", "a", "t", "a", "/", "r", "a", "w">>
          [] n = "invoices" -> <<"i", "n", "v", "o", "i", "c", "e", "s">>
          [] n = "po" -> <<"p", "o">>
          [] n = "docs" -> <<"d", "o", "c", "s">>
          [] n = "PO7" -> <<"P", "O", "7">>
          [] n = "BOL3" -> <<"B", "O", "L", "3">>
          [] n = "scan" -> <<"s", "c", "a", "n">>
          [] n = "purchase5" -> <<"p", "u", "r", "c", "h", "a", "s", "e", "5">>
          [] n = "shipping2" -> <<"s", "h", "i", "p", "p", "i", "n", "g", "2">>
          [] n = "notes" -> <<"n", "o", "t", "e", "s">>
          [] n = "pdf" -> <<"p", "d", "f">>
          [] n = "txt" -> <<"t", "x", "t">>]

\* annotate_documents.py:318 (the default of --data-dir)
data_dir == "data/raw"

SourceFile(dir, stem, ext) == [dir |-> dir, stem |-> stem, ext |-> ext]

\* str(pdf_path): the data directory, the directory below it, the file name
PathText(pdf_path) ==
    Spelling[data_dir] \o <<"/">> \o Spelling[pdf_path.dir] \o <<"/">>
        \o Spelling[pdf_path.stem] \o <<".">> \o Spelling[pdf_path.ext]

\* the files the sample data directories are made of
SampleSources ==
    << SourceFile("invoices", "PO7", "pdf"),
       SourceFile("po", "PO7", "pdf"),
       SourceFile("docs", "scan", "pdf"),
       SourceFile("docs", "notes", "txt"),
       SourceFile("docs", "purchase5", "pdf"),
       SourceFile("docs", "shipping2", "pdf"),
       SourceFile("docs", "BOL3", "pdf") >>

\* annotate_documents.py:20, the files rglob("*.pdf") yields
all_pdfs(tree) == {f \in tree : f.ext = "pdf"}

\* annotate_documents.py:25-26 and 413-414
AnnotationPathAnyDirectory(pdf_path) == [dir |-> "docs", stem |-> pdf_path.stem]
AnnotationPath(pdf_path) == [dir |-> pdf_path.dir, stem |-> pdf_path.stem]

\* annotate_documents.py:18-31, as the set of the files listed (the list is
\* this set in the order rglob yields it)
list_unannotated_pdfs(tree, store) ==
    {pdf_path \in all_pdfs(tree) : AnnotationPath(pdf_path) \notin DOMAIN store}

invoice_word == <<"i", "n", "v", "o", "i", "c", "e">>
purchase_word == <<"p", "u", "r", "c", "h", "a", "s", "e">>
po_word == <<"p", "o">>
shipping_word == <<"s", "h", "i", "p", "p", "i", "n", "g">>
bol_word == <<"b", "o", "l">>

\* annotate_documents.py:345-352, the type the summary counts a file under
SummaryType(pdf_path) ==
    LET lowered == Lower(PathText(pdf_path))
    IN  IF Contains(invoice_word, lowered) THEN "invoice"
        ELSE IF Contains(purchase_word, lowered) \/ Contains(po_word, lowered)
        THEN "purchase_order"
        ELSE IF Contains(shipping_word, lowered) \/ Contains(bol_word, lowered)
        THEN "shipping_order"
        ELSE "unknown"

\* annotate_documents.py:379-397, the type of the form the loop opens: the
\* same chain, the user's choice where it ends in its else branch
FormTypePurchaseFirst(pdf_path, choice) ==
    LET lowered == Lower(PathText(pdf_path))
    IN  IF Contains(purchase_word, lowered) \/ Contains(po_word, lowered)
        THEN "purchase_order"
        ELSE IF Contains(invoice_word, lowered) THEN "invoice"
        ELSE IF Contains(shipping_word, lowered) \/ Contains(bol_word, lowered)
        THEN "shipping_order"
        ELSE choice
FormType(pdf_path, choice) ==
    LET lowered == Lower(PathText(pdf_path))
    IN  IF Contains(invoice_word, lowered) THEN "invoice"
        ELSE IF Contains(purchase_word, lowered) \/ Contains(po_word, lowered)
        THEN "purchase_order"
        ELSE IF Contains(shipping_word, lowered) \/ Contains(bol_word, lowered)
        THEN "shipping_order"
        ELSE choice

(***************************************************************************)
(* The values the forms build.  A float carries its value; the float nan   *)
(* carries the object it is, because nan equals nothing, itself included,  *)
(* and container equality falls back on object identity.                   *)
(***************************************************************************)
PyFloat(value) == [kind |-> "num", value |-> value]
PyNaN(object) == [kind |-> "num", nan |-> object]
JListOf(items) == [kind |-> "list", items |-> items]
NoFields == [k \in {} |-> JNull]

IsNaN(v) == v.kind = "num" /\ "nan" \in DOMAIN v

\* float(text): the number the text spells, nan for "nan", ValueError for
\* anything else
float(text) ==
    CASE text = "100" -> [state |-> "returned", value |-> PyFloat(100)]
      [] text = "nan" -> [state |-> "returned", value |-> PyNaN("float")]
      [] OTHER -> [state |-> "ValueError", value |-> JNull]

\* annotate_documents.py:33-36
get_optional_field(value) == IF value # "" THEN JStr(value) ELSE JNull

\* annotate_documents.py:87-91 and the blocks of the same shape: the key is
\* set when the answer is not blank and is a number
OptionalNumber(key, answer) ==
    IF answer # "" /\ float(answer).state = "returned"
    THEN key :> float(answer).value
    ELSE NoFields

\* annotate_documents.py:131-136: the invoice total, 0.0 when the answer is
\* not a number
InvoiceTotal(answer) ==
    IF answer = "" THEN NoFields
    ELSE IF float(answer).state = "returned" THEN "total" :> float(answer).value
    ELSE "total" :> PyFloat(0)

\* what the user answers to the prompts of one form: number to the
\* identifier prompt, text to every other text prompt, amount to every
\* numeric prompt, details to each "Add ... information / items?" question
\* ("Add address?" and "Add another item?" are answered no)
PromptAnswers ==
    { [number |-> "N1", text |-> "x", amount |-> "100", details |-> TRUE],
      [number |-> "", text |-> "", amount |-> "", details |-> FALSE],
      [number |-> "N1", text |-> "", amount |-> "abc", details |-> FALSE],
      [number |-> "N1", text |-> "x", amount |-> "nan", details |-> FALSE] }

\* annotate_documents.py:54-62, a seller or a buyer of an invoice
InvoiceParty(answers) ==
    JDict([k \in {"name", "phone", "email"} |->
             IF k = "name" THEN JStr(answers.text)
             ELSE get_optional_field(answers.text)])

\* annotate_documents.py:162-167, a party of the other two forms
Party(answers) == JDict([k \in {"name"} |-> JStr(answers.text)])

\* the items list of a form: one item when the user adds items
ItemsList(answers, item) == IF answers.details THEN JListOf(<<item>>) ELSE JListOf(<<>>)

\* annotate_documents.py:38-143
annotate_invoice(answers) ==
    JDict([k \in {"document_type", "invoice_number", "invoice_date", "currency",
                  "line_items", "payment_terms", "due_date", "notes"} |->
             CASE k = "document_type" -> JStr("invoice")
               [] k = "invoice_number" -> JStr(answers.number)
               [] k = "currency" -> JStr(IF answers.text = "" THEN "USD" ELSE answers.text)
               [] k = "line_items" ->
                    ItemsList(answers,
                        JDict([i \in {"description", "unit"} |->
                                 IF i = "description" THEN JStr(answers.text)
                                 ELSE get_optional_field(answers.text)]
                              @@ OptionalNumber("quantity", answers.amount)
                              @@ OptionalNumber("unit_price", answers.amount)
                              @@ OptionalNumber("total_price", answers.amount)))
               [] OTHER -> get_optional_field(answers.text)]
          @@ (IF answers.details
              THEN [k \in {"seller", "buyer"} |-> InvoiceParty(answers)]
              ELSE NoFields)
          @@ OptionalNumber("subtotal", answers.amount)
          @@ OptionalNumber("tax", answers.amount)
          @@ InvoiceTotal(answers.amount))

\* annotate_documents.py:145-228
annotate_purchase_order(answers) ==
    JDict([k \in {"document_type", "po_number", "po_date", "currency",
                  "line_items", "delivery_date", "payment_terms", "notes"} |->
             CASE k = "document_type" -> JStr("purchase_order")
               [] k = "po_number" -> JStr(answers.number)
               [] k = "currency" -> JStr(IF answers.text = "" THEN "USD" ELSE answers.text)
               [] k = "line_items" ->
                    ItemsList(answers,
                        JDict([i \in {"description", "unit"} |->
                                 IF i = "description" THEN JStr(answers.text)
                                 ELSE get_optional_field(answers.text)]
                              @@ OptionalNumber("quantity", answers.amount)
                              @@ OptionalNumber("unit_price", answers.amount)))
               [] OTHER -> get_optional_field(answers.text)]
          @@ (IF answers.details
              THEN [k \in {"buyer", "supplier"} |-> Party(answers)]
              ELSE NoFields)
          @@ OptionalNumber("total", answers.amount))

\* annotate_documents.py:230-315
annotate_shipping_order(answers) ==
    JDict([k \in {"document_type", "order_number", "ship_date", "cargo_items",
                  "weight_unit", "origin", "destination", "carrier",
                  "tracking_number", "vessel_name", "container_number", "notes"} |->
             CASE k = "document_type" -> JStr("shipping_order")
               [] k = "order_number" -> JStr(answers.number)
               [] k = "weight_unit" -> JStr(IF answers.text = "" THEN "kg" ELSE answers.text)
               [] k = "cargo_items" ->
                    ItemsList(answers,
                        JDict([i \in {"description", "weight_unit", "dimensions",
                                      "package_type"} |->
                                 CASE i = "description" -> JStr(answers.text)
                                   [] i = "weight_unit" ->
                                        JStr(IF answers.text = "" THEN "kg" ELSE answers.text)
                                   [] OTHER -> get_optional_field(answers.text)]
                              @@ OptionalNumber("quantity", answers.amount)
                              @@ OptionalNumber("weight", answers.amount)))
               [] OTHER -> get_optional_field(answers.text)]
          @@ (IF answers.details
              THEN [k \in {"shipper", "consignee"} |-> Party(answers)]
              ELSE NoFields)
          @@ OptionalNumber("total_weight", answers.amount))

\* annotate_documents.py:389-391: the type is asked for only in the else
\* branch of the chain
TypeChoices(pdf_path) ==
    IF FormType(pdf_path, "unknown") = "unknown" THEN Range(valid_types)
    ELSE {"unasked"}

\* annotate_documents.py:379-397, the form of a type
EntitiesOf(doc_type, answers) ==
    CASE doc_type = "invoice" -> annotate_invoice(answers)
      [] doc_type = "purchase_order" -> annotate_purchase_order(answers)
      [] OTHER -> annotate_shipping_order(answers)

\* datetime.now().isoformat() of session n
Timestamp(n) == IF n = 1 THEN "2024-01-01T09:00:00" ELSE "2024-01-02T09:00:00"

\* annotate_documents.py:400-410
AnnotationShownType(pdf_path, doc_type, entities, session) ==
    JDict([k \in {"document_id", "filename", "document_type", "entities",
                  "annotation_metadata"} |->
             CASE k = "document_id" -> JStr(pdf_path.stem)
               [] k = "filename" -> JStr(<<pdf_path.stem, pdf_path.ext>>)
               [] k = "document_type" -> JStr(SummaryType(pdf_path))
               [] k = "entities" -> entities
               [] OTHER ->
                    JDict([m \in {"annotated_date", "source_path", "annotator"} |->
                             CASE m = "annotated_date" -> JStr(Timestamp(session))
                               [] m = "source_path" ->
                                    JStr(<<pdf_path.dir, pdf_path.stem, pdf_path.ext>>)
                               [] OTHER -> JStr("manual")])])
Annotation(pdf_path, doc_type, entities, session) ==
    JDict([k \in {"document_id", "filename", "document_type", "entities",
                  "annotation_metadata"} |->
             CASE k = "document_id" -> JStr(pdf_path.stem)
               [] k = "filename" -> JStr(<<pdf_path.stem, pdf_path.ext>>)
               [] k = "document_type" -> JStr(doc_type)
               [] k = "entities" -> entities
               [] OTHER ->
                    JDict([m \in {"annotated_date", "source_path", "annotator"} |->
                             CASE m = "annotated_date" -> JStr(Timestamp(session))
                               [] m = "source_path" ->
                                    JStr(<<pdf_path.dir, pdf_path.stem, pdf_path.ext>>)
                               [] OTHER -> JStr("manual")])])

(***************************************************************************)
(* json.dump and json.load.  A JSON text is the tree of its tokens; the    *)
(* token NaN is what json.dump writes for the float nan, and json.load     *)
(* makes a new float of it.                                                *)
(***************************************************************************)
RECURSIVE Dump(_)
\* annotate_documents.py:416-417
Dump(v) ==
    CASE v.kind = "str" -> [json |-> "string", text |-> v.str]
      [] v.kind = "null" -> [json |-> "null"]
      [] v.kind = "num" ->
           IF IsNaN(v) THEN [json |-> "NaN"]
           ELSE [json |-> "number", digits |-> v.value]
      [] v.kind = "dict" ->
           [json |-> "object",
            members |-> [k \in DOMAIN v.items |-> Dump(v.items[k])]]
      [] v.kind = "list" ->
           [json |-> "array",
            elements |-> [i \in DOMAIN v.items |-> Dump(v.items[i])]]

RECURSIVE Load(_)
\* validate_annotations.py:22-23, split_data.py:20-21,
\* data_quality_report.py:32-33
Load(t) ==
    CASE t.json = "string" -> JStr(t.text)
      [] t.json = "null" -> JNull
      [] t.json = "number" -> PyFloat(t.digits)
      [] t.json = "NaN" -> PyNaN("json.load")
      [] t.json = "object" -> JDict([k \in DOMAIN t.members |-> Load(t.members[k])])
      [] t.json = "array" -> JListOf([i \in DOMAIN t.elements |-> Load(t.elements[i])])

\* annotate_documents.py:319 (the default of --output-dir, which is a
\* relative path) and an absolute directory below the working directory
OutputDirs ==
    { [path |-> "data/ground_truth/train", under_cwd |-> FALSE],
      [path |-> "/work/data/ground_truth/train", under_cwd |-> TRUE] }

\* the record an earlier session left for a file
EarlierRecord(pdf_path) ==
    Dump(Annotation(pdf_path, FormType(pdf_path, "invoice"),
                    EntitiesOf(FormType(pdf_path, "invoice"),
                               [number |-> "N0", text |-> "", amount |-> "",
                                details |-> FALSE]), 1))

\* the data directories: at most MaxPdfs sample files that follow each other
SampleTrees ==
    { {SampleSources[i] : i \in from..Min(from + n - 1, Len(SampleSources))} :
        from \in DOMAIN SampleSources, n \in 1..MaxPdfs }

\* the ground-truth directory a first session finds: empty, or holding the
\* record of one of the files
InitialStores(tree) ==
    {NoFields} \cup {AnnotationPath(p) :> EarlierRecord(p) : p \in all_pdfs(tree)}

\* annotate_documents.py:317-332
InitCollect ==
    /\ raw_pdfs \in SampleTrees
    /\ output_dir \in OutputDirs
    /\ ground_truth \in InitialStores(raw_pdfs)
    /\ unannotated = <<>>
    /\ shown = <<>>
    /\ annotate_i = 0
    /\ collector_pc = "start"
    /\ sessions = 1
    /\ saved = <<>>

\* annotate_documents.py:332-366: the list, the early return when it is
\* empty, the summary by type
ListUnannotated ==
    /\ collector_pc = "start"
    /\ \E order \in Orderings(list_unannotated_pdfs(raw_pdfs, ground_truth)) :
          /\ unannotated' = order
          /\ shown' = [i \in DOMAIN order |-> SummaryType(order[i])]
          /\ collector_pc' = IF order = <<>> THEN "ended" ELSE "confirm"
    /\ UNCHANGED <<raw_pdfs, output_dir, ground_truth, annotate_i, sessions, saved,
                   splitArgs, fs, fs0, rng, splitLocals, splitOutcome,
                   manifest, seen_types, prev, validatorVars, validatorMain,
                   reportVars, settingsVars>>

\* annotate_documents.py:369-371
StartAnnotation ==
    /\ collector_pc = "confirm"
    /\ \E start \in BOOLEAN :
          collector_pc' = IF start THEN "annotate" ELSE "ended"
    /\ annotate_i' = 1
    /\ UNCHANGED <<raw_pdfs, output_dir, ground_truth, unannotated, shown,
                   sessions, saved,
                   splitArgs, fs, fs0, rng, splitLocals, splitOutcome,
                   manifest, seen_types, prev, validatorVars, validatorMain,
                   reportVars, settingsVars>>

\* annotate_documents.py:374-420: the form, the record, the save, and the
\* message about it, whose relative_to(Path.cwd()) raises ValueError for an
\* output directory that is not below the working directory
AnnotateDocument ==
    /\ collector_pc = "annotate"
    /\ \E answers \in PromptAnswers, choice \in TypeChoices(unannotated[annotate_i]) :
          LET pdf_path == unannotated[annotate_i]
              doc_type == FormType(pdf_path, choice)
              annotation == Annotation(pdf_path, doc_type,
                                       EntitiesOf(doc_type, answers), sessions)
              annotation_path == AnnotationPath(pdf_path)
          IN  /\ ground_truth' =
                    [p \in DOMAIN ground_truth \cup {annotation_path} |->
                        IF p = annotation_path THEN Dump(annotation)
                        ELSE ground_truth[p]]
              /\ saved' = Append(saved,
                    [pdf_path |-> pdf_path,
                     annotation_path |-> annotation_path,
                     annotation |-> annotation,
                     existed |-> annotation_path \in DOMAIN ground_truth,
                     shown |-> shown[annotate_i],
                     classified |-> FormType(pdf_path, "unknown"),
                     form |-> doc_type,
                     session |-> sessions])
    /\ collector_pc' =
          IF ~output_dir.under_cwd THEN "crashed"
          ELSE IF Len(unannotated) - annotate_i > 0 THEN "checkpoint"
          ELSE "ended"
    /\ UNCHANGED <<raw_pdfs, output_dir, unannotated, shown, annotate_i, sessions,
                   splitArgs, fs, fs0, rng, splitLocals, splitOutcome,
                   manifest, seen_types, prev, validatorVars, validatorMain,
                   reportVars, settingsVars>>

\* annotate_documents.py:422-430
Checkpoint ==
    /\ collector_pc = "checkpoint"
    /\ \E continue \in BOOLEAN :
          IF continue
          THEN /\ annotate_i' = annotate_i + 1
               /\ collector_pc' = "annotate"
          ELSE /\ annotate_i' = annotate_i
               /\ collector_pc' = "ended"
    /\ UNCHANGED <<raw_pdfs, output_dir, ground_truth, unannotated, shown,
                   sessions, saved,
                   splitArgs, fs, fs0, rng, splitLocals, splitOutcome,
                   manifest, seen_types, prev, validatorVars, validatorMain,
                   reportVars, settingsVars>>

\* annotate_documents.py:438-439, the tool run again on the same directories
Resume ==
    /\ collector_pc \in {"ended", "crashed"}
    /\ sessions < MaxSessions
    /\ sessions' = sessions + 1
    /\ collector_pc' = "start"
    /\ unannotated' = <<>>
    /\ shown' = <<>>
    /\ annotate_i' = 0
    /\ UNCHANGED <<raw_pdfs, output_dir, ground_truth, saved,
                   splitArgs, fs, fs0, rng, splitLocals, splitOutcome,
                   manifest, seen_types, prev, validatorVars, validatorMain,
                   reportVars, settingsVars>>

InitCollector ==
    /\ SplitterIdle
    /\ ValidatorIdle
    /\ ValidatorMainIdle
    /\ ReporterIdle
    /\ SettingsIdle
    /\ InitCollect

NextCollector ==
    \/ ListUnannotated
    \/ StartAnnotation
    \/ AnnotateDocument
    \/ Checkpoint
    \/ Resume

SpecCollector == InitCollector /\ [][NextCollector]_vars

(***************************************************************************)
(* config/settings.py: the Settings class, for the four settings the tests *)
(* read.  environ is what the settings sources find: the variables of the  *)
(* process and, below them, the lines of .env, by field name; init_kwargs  *)
(* is what the constructor is called with.  The module builds its global   *)
(* object when it is imported, so a caller has the class only after that   *)
(* construction succeeded.                                                 *)
(***************************************************************************)
\* settings.py:10-11, 39, 43
SettingsFields == {"openai_api_key", "openai_model", "log_level", "batch_size"}

\* settings.py:11, 39, 43: the defaults (openai_api_key has none)
Defaults == [openai_model |-> "gpt-4", log_level |-> "INFO", batch_size |-> 10]

\* the environments: each variable absent or set, BATCH_SIZE to a number or
\* to a text that is no number
Environments ==
    { e \in UNION {[names -> {"env-key", "gpt-3.5-turbo", "WARNING", "20", "abc"}] :
                      names \in SUBSET SettingsFields} :
        /\ "openai_api_key" \in DOMAIN e => e["openai_api_key"] = "env-key"
        /\ "openai_model" \in DOMAIN e => e["openai_model"] = "gpt-3.5-turbo"
        /\ "log_level" \in DOMAIN e => e["log_level"] = "WARNING"
        /\ "batch_size" \in DOMAIN e => e["batch_size"] \in {"20", "abc"} }

\* an argument of a call, passed or left out
Argument(name, value, passed) == IF passed THEN name :> value ELSE NoFields

\* the calls of the constructor: the calls of the two tests and the calls
\* that pass other subsets of the same arguments
ConstructorCalls ==
    { Argument("openai_api_key", "test-key", key)
        @@ Argument("openai_model", "gpt-4o", model)
        @@ Argument("log_level", "DEBUG", level)
        @@ Argument("batch_size", 20, size) :
        key \in BOOLEAN, model \in BOOLEAN, level \in BOOLEAN, size \in BOOLEAN }

\* the validation of an int field given as text
int(text) ==
    CASE text = "20" -> [state |-> "returned", value |-> 20]
      [] OTHER -> [state |-> "ValidationError", value |-> 0]

\* the value a source gives a field, validated for the field's type
FromEnvironment(field, env) ==
    IF field = "batch_size" THEN int(env[field])
    ELSE [state |-> "returned", value |-> env[field]]

\* settings.py:6-54, one field of the object: the constructor's argument,
\* else the environment's value, else the default, else the field is missing
FieldValueEnvironmentFirst(field, kwargs, env) ==
    IF field \in DOMAIN env THEN FromEnvironment(field, env)
    ELSE IF field \in DOMAIN kwargs THEN [state |-> "returned", value |-> kwargs[field]]
    ELSE IF field \in DOMAIN Defaults
    THEN [state |-> "returned", value |-> Defaults[field]]
    ELSE [state |-> "ValidationError", value |-> ""]
FieldValue(field, kwargs, env) ==
    IF field \in DOMAIN kwargs THEN [state |-> "returned", value |-> kwargs[field]]
    ELSE IF field \in DOMAIN env THEN FromEnvironment(field, env)
    ELSE IF field \in DOMAIN Defaults
    THEN [state |-> "returned", value |-> Defaults[field]]
    ELSE [state |-> "ValidationError", value |-> ""]

\* settings.py:6-54, Settings(**kwargs): the object, or ValidationError when
\* a field is missing or not of its type
Settings(kwargs, env) ==
    IF \A field \in SettingsFields : FieldValue(field, kwargs, env).state = "returned"
    THEN [state |-> "returned",
          object |-> [field \in SettingsFields |-> FieldValue(field, kwargs, env).value]]
    ELSE [state |-> "ValidationError", object |-> <<>>]

InitSettings ==
    /\ environ \in Environments
    /\ init_kwargs = <<>>
    /\ settings = [at |-> "start"]

\* settings.py:57, run by the import of the module (test_config.py:11)
ImportSettings ==
    /\ settings # Null
    /\ settings.at = "start"
    /\ settings' =
          IF Settings(<<>>, environ).state = "returned"
          THEN [at |-> "imported", global |-> Settings(<<>>, environ).object]
          ELSE [at |-> "import_failed"]
    /\ UNCHANGED <<environ, init_kwargs, splitArgs, fs, fs0, rng, splitLocals,
                   splitOutcome, manifest, seen_types, prev, validatorVars,
                   validatorMain, reportVars, collectorVars>>

\* test_config.py:15 and 22-26, a call of the constructor
Construct ==
    /\ settings # Null
    /\ settings.at = "imported"
    /\ \E kwargs \in ConstructorCalls :
          /\ init_kwargs' = kwargs
          /\ settings' =
                IF Settings(kwargs, environ).state = "returned"
                THEN [at |-> "built", global |-> settings.global,
                      object |-> Settings(kwargs, environ).object]
                ELSE [at |-> "ValidationError", global |-> settings.global]
    /\ UNCHANGED <<environ, splitArgs, fs, fs0, rng, splitLocals,
                   splitOutcome, manifest, seen_types, prev, validatorVars,
                   validatorMain, reportVars, collectorVars>>

InitSettingsOnly ==
    /\ SplitterIdle
    /\ ValidatorIdle
    /\ ValidatorMainIdle
    /\ ReporterIdle
    /\ CollectorIdle
    /\ InitSettings

NextSettings ==
    \/ ImportSettings
    \/ Construct

SpecSettings == InitSettingsOnly /\ [][NextSettings]_vars

(***************************************************************************)
(* The splitter's claims.                                                  *)
(***************************************************************************)
\* floor(n * ratio)
FloorOfProduct(n, k) == (n * k) \div RatioDen

\* the ratio sum is more than 0.01 away from 1.0
SumOutOfTolerance ==
    100 * Abs(train_ratio + val_ratio + test_ratio - RatioDen) > RatioDen

\* the records under the input directory when the process started
InputRecords == Rglob(fs0, input_path)

AllAssigned == train_files \o val_files \o test_files

\* C1: whenever the ratio sum is accepted and the split loop has run over a
\* non-empty record set, train, validation and test are pairwise disjoint and
\* their union is the input record set: every record is assigned exactly once.
C1_PartitionIsExact ==
    SplitComplete =>
        /\ Len(AllAssigned) = Len(json_files)
        /\ Range(AllAssigned) = Range(json_files)

\* C2: two runs with the same seed, the same ratios and the same discovery
\* order (the same files with the same types) make the same train,
\* validation and test lists.
C2_SameSeedSamePartition ==
    (SplitComplete /\ prev # Null /\ prev.json_files = json_files
        /\ prev.seen_types = seen_types) =>
        /\ train_files = prev.train
        /\ val_files = prev.validation
        /\ test_files = prev.test

\* a second run over three records of two types, which the shuffle reordered
C2_Witness ==
    /\ SplitComplete
    /\ prev # Null
    /\ prev.json_files = json_files
    /\ Len(json_files) = 3
    /\ Len(by_type) = 2
    /\ train_files # <<>>
    /\ Concat([i \in DOMAIN by_type |-> by_type[i].files]) # json_files

\* C3: for a single document type of size n the train list has floor(n*r_train)
\* records, the validation list floor(n*r_val), and the test list the rest.
C3_SingleTypeCounts ==
    (SplitComplete /\ Len(by_type) = 1) =>
        LET n == Len(json_files)
        IN  /\ Len(train_files) = FloorOfProduct(n, train_ratio)
            /\ Len(val_files) = FloorOfProduct(n, val_ratio)
            /\ Len(test_files) = n - FloorOfProduct(n, train_ratio)
                                   - FloorOfProduct(n, val_ratio)

\* C4: with a ratio sum out of tolerance the run reports the error and ends
\* with a non-zero status before any grouping or partitioning, and the file
\* tree stays as it was.
C4_BadRatiosAbortCleanly ==
    SumOutOfTolerance =>
        /\ pc \in {"start", "crashed"}
        /\ pc = "crashed" => (exit_status = 1 /\ "ratio_error" \in console)
        /\ exit_status # 0
        /\ json_files = <<>> /\ by_type = <<>>
        /\ AllAssigned = <<>>
        /\ fs = fs0
        /\ manifest_path \notin DOMAIN fs

\* a rejected command line over an input directory that holds records
C4_Witness ==
    /\ SumOutOfTolerance
    /\ pc = "crashed"
    /\ InputRecords # {}

CountOf(list, g) ==
    Cardinality({i \in DOMAIN list : list[i] \in Range(by_type[g].files)})

\* C6: for every group of size n, the train count is at most n*r_train, the
\* validation count at most n*r_val and the test count at least n*r_test.
C6_RoundingFavoursTest ==
    SplitComplete =>
        \A g \in DOMAIN by_type :
            LET n == Len(by_type[g].files)
            IN  /\ CountOf(train_files, g) * RatioDen <= n * train_ratio
                /\ CountOf(val_files, g) * RatioDen <= n * val_ratio
                /\ CountOf(test_files, g) * RatioDen >= n * test_ratio

\* the record files under a destination
RecordsUnder(d) == Rglob(fs, d)

Targets(p, list) == {Target(p, list[i]) : i \in DOMAIN list}

\* C7: after a split that was confirmed and ran to the end, each destination
\* holds exactly the files of its partition, and every record is under
\* exactly one destination.
C7_DestinationsHoldTheirPartition ==
    pc = "done" =>
        /\ RecordsUnder(train_dir) = Targets("copy_train", train_files)
        /\ RecordsUnder(val_dir) = Targets("copy_val", val_files)
        /\ RecordsUnder(test_dir) = Targets("copy_test", test_files)
        /\ \A f \in Range(json_files) :
              Cardinality({p \in {"copy_train", "copy_val", "copy_test"} :
                              Target(p, f) \in DOMAIN fs}) = 1

\* C8: the manifest of a completed split holds the seed and the ratios used;
\* counts.total is the number of input records and the sum of the three
\* counts; each identifier list is as long as its count and names the
\* records copied into its destination.
C8_ManifestIsConsistent ==
    pc = "done" =>
        /\ manifest.seed = seed
        /\ manifest.ratios = [train |-> train_ratio, validation |-> val_ratio,
                              test |-> test_ratio]
        /\ manifest.counts.total = Cardinality(InputRecords)
        /\ manifest.counts.total = manifest.counts.train
              + manifest.counts.validation + manifest.counts.test
        /\ Len(manifest.document_ids.train) = manifest.counts.train
        /\ Len(manifest.document_ids.validation) = manifest.counts.validation
        /\ Len(manifest.document_ids.test) = manifest.counts.test
        /\ Range(manifest.document_ids.train)
              = {p.stem : p \in Targets("copy_train", train_files) \cap DOMAIN fs}
        /\ Range(manifest.document_ids.validation)
              = {p.stem : p \in Targets("copy_val", val_files) \cap DOMAIN fs}
        /\ Range(manifest.document_ids.test)
              = {p.stem : p \in Targets("copy_test", test_files) \cap DOMAIN fs}

(***************************************************************************)
(* The validator's claims.                                                 *)
(***************************************************************************)
Validated == result.state # "none"

\* invoice -> invoice_number, purchase_order -> po_number,
\* shipping_order -> order_number
IdentifierKey(t) ==
    CASE t = JStr("invoice") -> "invoice_number"
      [] t = JStr("purchase_order") -> "po_number"
      [] OTHER -> "order_number"

\* the conditions of C9 on a record that is a mapping
WellFormed(d) ==
    /\ \A k \in {"document_id", "filename", "document_type", "entities"} :
          k \in DOMAIN d.items
    /\ d.items["document_type"]
          \in {JStr("invoice"), JStr("purchase_order"), JStr("shipping_order")}
    /\ d.items["entities"].kind = "dict"
    /\ LET entities == d.items["entities"].items
       IN  /\ "document_type" \in DOMAIN entities
                => entities["document_type"] = d.items["document_type"]
           /\ IdentifierKey(d.items["document_type"]) \in DOMAIN entities
           /\ Cardinality(DOMAIN entities) >= 2
    /\ "annotation_metadata" \in DOMAIN d.items
          => d.items["annotation_metadata"].kind = "dict"

\* C9: for a record that is a mapping, validate_annotation returns valid
\* with no issue exactly when the record is well formed, and in every other
\* case invalid with at least one issue.
C9_ValidIffWellFormed ==
    (Validated /\ data.kind = "dict") =>
        /\ result.state = "returned"
        /\ result.valid <=> WellFormed(data)
        /\ result.valid <=> result.issues = <<>>

MinimalInvoice ==
    JDict([k \in {"document_id", "filename", "document_type", "entities"} |->
             CASE k = "document_type" -> JStr("invoice")
               [] k = "entities" ->
                    JDict([e \in {"document_type", "invoice_number", "total"} |->
                             IF e = "document_type" THEN JStr("invoice")
                             ELSE JStr("v")])
               [] OTHER -> JStr("x")])

\* the minimal well-formed invoice of the specification was validated
C9_Witness == Validated /\ data = MinimalInvoice /\ result.valid

\* a record with the four required fields and no other, of type invoice,
\* whose entities hold only {document_type: invoice}
TagOnlyInvoice ==
    JDict([k \in {"document_id", "filename", "document_type", "entities"} |->
             CASE k = "document_type" -> JStr("invoice")
               [] k = "entities" ->
                    JDict([e \in {"document_type"} |-> JStr("invoice")])
               [] OTHER -> JStr("x")])

\* C10 as claimed: the validator flags exactly one issue, the empty
\* annotation, for the invoice whose entities hold only the type tag.
C10_TagOnlyOneIssue ==
    (Validated /\ data = TagOnlyInvoice) =>
        result.issues = <<Issue("empty_entities", <<>>)>>

\* C10 as amended: the validator flags exactly two issues for that record,
\* the missing invoice_number and then the empty annotation.
C10_TagOnlyTwoIssues ==
    (Validated /\ data = TagOnlyInvoice) =>
        /\ ~result.valid
        /\ result.issues = <<Issue("missing_identifier", <<JStr("invoice_number")>>),
                             Issue("empty_entities", <<>>)>>

C10_Witness == Validated /\ data = TagOnlyInvoice

(***************************************************************************)
(* The validator's rules, one by one.                                      *)
(***************************************************************************)
SchemaTypes == {JStr("invoice"), JStr("purchase_order"), JStr("shipping_order")}

\* entities of d is present and is a mapping
EntitiesIsMapping(d) ==
    "entities" \in DOMAIN d.items /\ d.items["entities"].kind = "dict"

\* rule 1 for the top-level field k .. rule 7, each as a condition on the
\* record alone
Violates1(d, k) == k \notin DOMAIN d.items
Violates2(d) ==
    "document_type" \in DOMAIN d.items /\ d.items["document_type"] \notin SchemaTypes
Violates3(d) ==
    "entities" \in DOMAIN d.items /\ d.items["entities"].kind # "dict"
Violates4(d) ==
    /\ EntitiesIsMapping(d)
    /\ "document_type" \in DOMAIN d.items
    /\ "document_type" \in DOMAIN d.items["entities"].items
    /\ d.items["entities"].items["document_type"] # d.items["document_type"]
Violates5(d) ==
    /\ EntitiesIsMapping(d)
    /\ "document_type" \in DOMAIN d.items
    /\ d.items["document_type"] \in SchemaTypes
    /\ IdentifierKey(d.items["document_type"]) \notin DOMAIN d.items["entities"].items
Violates6(d) ==
    EntitiesIsMapping(d) /\ Cardinality(DOMAIN d.items["entities"].items) <= 1
Violates7(d) ==
    "annotation_metadata" \in DOMAIN d.items
        /\ d.items["annotation_metadata"].kind # "dict"

\* the rules in their order, each with whether d violates it
RuleTable(d) ==
    << <<"missing_field", Violates1(d, "document_id")>>,
       <<"missing_field", Violates1(d, "filename")>>,
       <<"missing_field", Violates1(d, "document_type")>>,
       <<"missing_field", Violates1(d, "entities")>>,
       <<"invalid_document_type", Violates2(d)>>,
       <<"entities_not_dict", Violates3(d)>>,
       <<"mismatched_document_type", Violates4(d)>>,
       <<"missing_identifier", Violates5(d)>>,
       <<"empty_entities", Violates6(d)>>,
       <<"metadata_not_dict", Violates7(d)>> >>

IsViolated(row) == row[2]
ViolatedRules(d) ==
    LET rows == SelectSeq(RuleTable(d), IsViolated)
    IN  [i \in DOMAIN rows |-> rows[i][1]]

RulesOf(issues) == [i \in DOMAIN issues |-> issues[i].rule]

HasIssue(rule) == \E i \in DOMAIN result.issues : result.issues[i].rule = rule

\* C11: for a record that is a mapping, the issue list holds one issue for
\* each violated rule (one per missing top-level field), in the order of
\* rules 1 to 7; no violation hides a later one, except that entities which
\* is no mapping gives its own issue in place of rules 4 to 6, and rule 7
\* is still applied.
C11_AllViolationsInOrder ==
    (Validated /\ data.kind = "dict") =>
        /\ RulesOf(result.issues) = ViolatedRules(data)
        /\ Violates3(data) =>
              /\ ~HasIssue("mismatched_document_type")
              /\ ~HasIssue("missing_identifier")
              /\ ~HasIssue("empty_entities")
              /\ Violates7(data) => HasIssue("metadata_not_dict")

\* a record that violates rules 1 (twice), 4, 5, 6 and 7 got its six
\* issues
C11_Witness ==
    /\ Validated
    /\ data.kind = "dict"
    /\ Violates1(data, "document_id")
    /\ Violates1(data, "filename")
    /\ Violates4(data)
    /\ Violates5(data)
    /\ Violates6(data)
    /\ Violates7(data)
    /\ Len(result.issues) = 6

\* the record of the specification: top-level invoice, entities tagged
\* purchase_order with a po_number
MismatchExample ==
    JDict([k \in {"document_id", "filename", "document_type", "entities"} |->
             CASE k = "document_type" -> JStr("invoice")
               [] k = "entities" ->
                    JDict([e \in {"document_type", "po_number"} |->
                             IF e = "document_type" THEN JStr("purchase_order")
                             ELSE JStr("v")])
               [] OTHER -> JStr("x")])

MismatchIssue(top, inner) == Issue("mismatched_document_type", <<top, inner>>)

\* C12: a mismatch issue naming both values is reported exactly when
\* entities is a mapping with its own document_type, the top-level
\* document_type is present and the two differ; the example record gets the
\* mismatch issue and the missing invoice_number issue.
C12_MismatchNamesBothValues ==
    (Validated /\ data.kind = "dict") =>
        /\ HasIssue("mismatched_document_type") <=> Violates4(data)
        /\ Violates4(data) =>
              \E i \in DOMAIN result.issues :
                  result.issues[i] =
                      MismatchIssue(data.items["document_type"],
                                    data.items["entities"].items["document_type"])
        /\ data = MismatchExample =>
              result.issues =
                  <<MismatchIssue(JStr("invoice"), JStr("purchase_order")),
                    Issue("missing_identifier", <<JStr("invoice_number")>>)>>

C12_Witness == Validated /\ data = MismatchExample

\* C13: when entities is a mapping and the top-level document_type is one
\* of the three types, the missing-identifier issue of that type is reported
\* exactly when its identifier key is absent from entities, whatever other
\* identifier entities holds.
C13_IdentifierOfOwnType ==
    (Validated /\ data.kind = "dict" /\ EntitiesIsMapping(data)
        /\ "document_type" \in DOMAIN data.items
        /\ data.items["document_type"] \in SchemaTypes) =>
        LET key == IdentifierKey(data.items["document_type"])
            missing == Issue("missing_identifier", <<JStr(key)>>)
        IN  /\ (\E i \in DOMAIN result.issues : result.issues[i] = missing)
                   <=> key \notin DOMAIN data.items["entities"].items
            /\ \A i \in DOMAIN result.issues :
                   result.issues[i].rule = "missing_identifier"
                       => result.issues[i] = missing

\* a shipping order that holds the identifiers of the two other types was
\* reported as missing its order_number
C13_Witness ==
    /\ Validated
    /\ data.kind = "dict"
    /\ EntitiesIsMapping(data)
    /\ "document_type" \in DOMAIN data.items
    /\ data.items["document_type"] = JStr("shipping_order")
    /\ {"invoice_number", "po_number"} \subseteq DOMAIN data.items["entities"].items
    /\ HasIssue("missing_identifier")

\* C14: the empty-annotation issue is reported exactly when entities is a
\* mapping with at most one field, so the entities of every accepted record
\* hold a field other than document_type.
C14_EmptyAnnotation ==
    (Validated /\ data.kind = "dict") =>
        /\ HasIssue("empty_entities") <=> Violates6(data)
        /\ result.valid =>
              /\ EntitiesIsMapping(data)
              /\ \E k \in DOMAIN data.items["entities"].items : k # "document_type"

\* a record whose entities hold one field that is not the type tag was
\* reported as empty
C14_Witness ==
    /\ Validated
    /\ data.kind = "dict"
    /\ EntitiesIsMapping(data)
    /\ DOMAIN data.items["entities"].items = {"invoice_number"}
    /\ HasIssue("empty_entities")

\* C15: a file that is not parsable JSON is invalid with exactly one issue,
\* which is the issue of no rule from 1 to 7.
C15_UnparsableOneIssue ==
    (Validated /\ data.kind \in {"unparsable", "unreadable"}) =>
        /\ result.state = "returned"
        /\ ~result.valid
        /\ Len(result.issues) = 1
        /\ result.issues[1].rule \in {"invalid_json", "error_reading_file"}

C15_Witness == Validated /\ data = Unparsable /\ Len(result.issues) = 1

CompanyRoleFields == {"seller", "buyer", "shipper", "consignee", "supplier"}
AmountFields == {"total", "subtotal", "tax", "total_weight"}

StatsReturned == stats.state = "returned" /\ ~IsEmpty(stats.value)

\* C16: the company-info flag of the statistics extractor is true exactly
\* when entities holds one of seller, buyer, shipper, consignee, supplier,
\* its amount flag exactly when entities holds one of total, subtotal, tax,
\* total_weight, and both agree with what the quality reporter counts for
\* the same record.
C16_FlagsFollowTheFieldLists ==
    (StatsReturned /\ data.kind = "dict" /\ EntitiesIsMapping(data)) =>
        LET fields == DOMAIN data.items["entities"].items
        IN  /\ stats.value.has_seller_buyer <=> fields \cap CompanyRoleFields # {}
            /\ stats.value.has_amounts <=> fields \cap AmountFields # {}
            /\ stats.value.has_seller_buyer = AnalyzeRecord(data).has_company_info
            /\ stats.value.has_amounts = AnalyzeRecord(data).has_amounts

\* unparsable JSON or a top-level value that is no mapping
Malformed(d) == d.kind # "dict"

StatsKeys == {"document_type", "field_count", "items_count", "has_seller_buyer",
              "has_amounts"}

\* C17: get_annotation_stats returns for every record file, raising
\* nothing: the empty result for a malformed record, and otherwise the
\* empty result or a result with its five keys.
C17_StatsNeverFails ==
    stats.state # "none" =>
        /\ stats.state = "returned"
        /\ Malformed(data) => IsEmpty(stats.value)
        /\ ~IsEmpty(stats.value) => DOMAIN stats.value = StatsKeys

\* the extractor was run on a mapping whose entities is null and gave the
\* empty result
C17_Witness ==
    /\ stats.state = "returned"
    /\ data.kind = "dict"
    /\ "entities" \in DOMAIN data.items
    /\ data.items["entities"] = JNull
    /\ IsEmpty(stats.value)

(***************************************************************************)
(* The exit status of the tools.                                           *)
(***************************************************************************)
\* the file holds a record that meets every rule
WellFormedFile(d) == d.kind = "dict" /\ WellFormed(d)

\* C18: the validation tool ends with status 1 exactly when a discovered
\* file is not a valid record and with status 0 when every one is valid; the
\* splitter ends with a non-zero status when the ratio sum is out of
\* tolerance.
C18_ExitStatusSignalsFailure ==
    /\ ValidatorMainEnded =>
          /\ validator_exit \in {0, 1}
          /\ validator_exit = 1 <=>
                \E i \in DOMAIN annotation_files : ~WellFormedFile(annotation_files[i])
    /\ (pc \notin {"idle", "start"} /\ SumOutOfTolerance) =>
          /\ pc = "crashed"
          /\ exit_status = 1

\* the tool went through a valid and an invalid record and ended with 1
C18_Witness ==
    /\ validator_pc = "exited"
    /\ validator_exit = 1
    /\ \E i \in DOMAIN results : results[i].valid
    /\ \E i \in DOMAIN results : ~results[i].valid

(***************************************************************************)
(* The quality reporter's signals, read off the split directories.         *)
(***************************************************************************)
DirSize(dir) == dir.files[1] + dir.files[2] + dir.files[3]

\* the record sets of the collection: the splits that hold a record file
RecordSets == {i \in DOMAIN splits :
                 split_dirs[splits[i]].exists /\ DirSize(split_dirs[splits[i]]) > 0}

SetSizes == {DirSize(split_dirs[splits[i]]) : i \in RecordSets}
Smallest == CHOOSE n \in SetSizes : \A m \in SetSizes : n <= m
Largest == CHOOSE n \in SetSizes : \A m \in SetSizes : m <= n

ReportWritten == report_pc.at = "done"

\* exactly two record sets, of sizes a and b
TwoSetsOfSizes(a, b) == Cardinality(RecordSets) = 2 /\ SetSizes = {a, b}

\* C19: a collection of two or more record sets is marked balanced exactly
\* when twice its smallest size is at least its largest size and imbalanced
\* otherwise: 10 and 3 imbalanced, 10 and 6 balanced, 10 and 5 balanced.
C19_BalancedAtHalf ==
    (ReportWritten /\ Cardinality(RecordSets) >= 2) =>
        /\ report.balance = "balanced" <=> 2 * Smallest >= Largest
        /\ report.balance = "imbalanced" <=> 2 * Smallest < Largest
        /\ TwoSetsOfSizes(10, 3) => report.balance = "imbalanced"
        /\ TwoSetsOfSizes(10, 6) => report.balance = "balanced"
        /\ TwoSetsOfSizes(10, 5) => report.balance = "balanced"

\* the report on two sets of 10 and 5 records says balanced
C19_Witness ==
    /\ ReportWritten
    /\ TwoSetsOfSizes(10, 5)
    /\ report.balance = "balanced"

TotalRecords == SumOver(RecordSets, [i \in RecordSets |-> DirSize(split_dirs[splits[i]])])

\* the four signals: balance, two document types in every set, thirty
\* records in all, company information in half of the records.  The
\* invoices of the directories name a seller and their purchase orders no
\* company.
SetsBalanced == Cardinality(RecordSets) >= 2 => 2 * Smallest >= Largest
EverySetTwoTypes ==
    \A i \in RecordSets :
        split_dirs[splits[i]].files[1] > 0 /\ split_dirs[splits[i]].files[2] > 0
EnoughRecords == TotalRecords >= 30
CompanyCoverage ==
    2 * SumOver(RecordSets, [i \in RecordSets |-> split_dirs[splits[i]].files[1]])
        >= TotalRecords

\* C20: the report carries one verdict; it is ready only when all four
\* signals pass, needs-more-data exactly when there are fewer than thirty
\* records, and review-warnings in every other case.
C20_VerdictFromFourSignals ==
    ReportWritten =>
        /\ report.status \in {"READY FOR TRAINING", "MORE DATA RECOMMENDED",
                               "REVIEW WARNINGS"}
        /\ report.status = "READY FOR TRAINING" =>
              SetsBalanced /\ EverySetTwoTypes /\ EnoughRecords /\ CompanyCoverage
        /\ report.status = "MORE DATA RECOMMENDED" <=> ~EnoughRecords
        /\ report.status = "REVIEW WARNINGS" <=>
              (EnoughRecords /\ report.status # "READY FOR TRAINING")

(***************************************************************************)
(* Totality of the validator, and the splitter's clear and confirm steps.  *)
(***************************************************************************)
\* C27: for every file whose content parses as JSON, whatever the type of
\* its top-level value, validate_annotation returns its pair and raises
\* nothing.
C27_TotalOverParsable ==
    (Validated /\ data.kind \notin {"unparsable", "unreadable"}) =>
        result.state = "returned"

CopyPhases == {"copy_train", "copy_val", "copy_test"}

\* C28: every record assigned to a partition is still at its source path
\* when its copy is performed, and every copy completes, wherever the input
\* directory lies.
C28_ClearSparesTheSources ==
    /\ pc \in CopyPhases => CopyList(pc)[ci] \in DOMAIN fs
    /\ exception \notin {"FileNotFoundError", "SameFileError"}

\* C29: declining the confirmation leaves the file tree as it was, with no
\* manifest written, and the tree changes only after the confirmation was
\* accepted.
C29_DeclineChangesNothing ==
    /\ "cancelled" \in console =>
          /\ pc = "returned"
          /\ fs = fs0
          /\ manifest = Null
    /\ (fs # fs0 \/ manifest # Null) =>
          /\ pc \in CopyPhases \cup {"manifest", "done", "crashed"}
          /\ "cancelled" \notin console

\* a split of three records lying inside the train destination was
\* declined
C29_Witness ==
    /\ "cancelled" \in console
    /\ input_path = <<"gt", "train", "invoices">>
    /\ Len(json_files) = 3
    /\ SplitComplete

(***************************************************************************)
(* Records that do not parse.                                              *)
(***************************************************************************)
MalformedRecords == {f \in DOMAIN fs0 : fs0[f] = "unparsable"}

\* C23: a record that does not parse is skipped or reported by the stage
\* that reads it, which goes on with the other records; in the splitter, no
\* such record is assigned to a partition unless the run reported it.
C23_MalformedSkippedOrReported ==
    SplitComplete =>
        \/ MalformedRecords \cap Range(AllAssigned) = {}
        \/ "malformed_record" \in console

(***************************************************************************)
(* The annotation collector's claims.                                      *)
(***************************************************************************)
\* the records of the ground-truth directory, as a consumer reads them
StoredRecord(p) == Load(ground_truth[p])

\* C21: no two distinct records of one record set share a document_id: the
\* document_id values of the records the collector created under one
\* ground-truth root are pairwise distinct.
C21_DocumentIdsDistinct ==
    \A p, q \in DOMAIN ground_truth :
        p # q => StoredRecord(p).items["document_id"] # StoredRecord(q).items["document_id"]

\* the record path at the same relative directory and stem as a source file
SameDirectoryAndStem(f) == [dir |-> f.dir, stem |-> f.stem]

\* C22: a PDF is listed as unannotated exactly when no record exists at the
\* same relative directory and stem; a record is saved there, never over an
\* existing record; each PDF is annotated at most once over the sessions, and
\* a PDF saved in an earlier session is not listed again.
C22_ListedUntilSavedOnce ==
    /\ collector_pc = "confirm" =>
          Range(unannotated) =
              {f \in raw_pdfs : /\ f.ext = "pdf"
                                /\ SameDirectoryAndStem(f) \notin DOMAIN ground_truth}
    /\ \A i \in DOMAIN saved :
          /\ saved[i].annotation_path = SameDirectoryAndStem(saved[i].pdf_path)
          /\ ~saved[i].existed
          /\ saved[i].session < sessions => saved[i].pdf_path \notin Range(unannotated)
          /\ \A j \in DOMAIN saved : i # j => saved[i].pdf_path # saved[j].pdf_path

\* two files saved in two sessions, the second session having listed only
\* what the first left
C22_Witness ==
    /\ Len(saved) = 2
    /\ saved[1].session = 1
    /\ saved[2].session = 2
    /\ Len(unannotated) = 1

RECURSIVE PyEq(_, _)
\* a == b of two values built of dicts, lists, strings, floats and None
PyEq(a, b) ==
    IF a.kind # b.kind THEN FALSE
    ELSE CASE a.kind = "num" ->
                IF IsNaN(a) \/ IsNaN(b)
                THEN IsNaN(a) /\ IsNaN(b) /\ a.nan = b.nan
                ELSE a.value = b.value
           [] a.kind = "str" -> a.str = b.str
           [] a.kind = "dict" ->
                /\ DOMAIN a.items = DOMAIN b.items
                /\ \A k \in DOMAIN a.items : PyEq(a.items[k], b.items[k])
           [] a.kind = "list" ->
                /\ Len(a.items) = Len(b.items)
                /\ \A i \in DOMAIN a.items : PyEq(a.items[i], b.items[i])
           [] OTHER -> TRUE

\* C24: a record the collector saved and a consumer reads back is equal in
\* every field to the record that was written.
C24_RoundTrip ==
    \A i \in DOMAIN saved :
        \A k \in DOMAIN saved[i].annotation.items :
            /\ k \in DOMAIN StoredRecord(saved[i].annotation_path).items
            /\ PyEq(StoredRecord(saved[i].annotation_path).items[k],
                    saved[i].annotation.items[k])

\* the rules of the classifier, in their order
ClassifierRules ==
    << [type |-> "invoice", words |-> {invoice_word}],
       [type |-> "purchase_order", words |-> {purchase_word, po_word}],
       [type |-> "shipping_order", words |-> {shipping_word, bol_word}] >>

\* the rules that match a file's lower-cased path
Matching(f) ==
    LET lowered == Lower(PathText(f))
    IN  {r \in DOMAIN ClassifierRules :
            \E w \in ClassifierRules[r].words : Contains(w, lowered)}

\* the type of the first rule that matches, unknown when none does
FirstMatch(f) ==
    LET matching == Matching(f)
    IN  IF matching = {} THEN "unknown"
        ELSE ClassifierRules[CHOOSE r \in matching : \A o \in matching : r <= o].type

\* C26: the classifier returns the type of the first rule its lower-cased path
\* matches (invoice; purchase or po; shipping or bol) and unknown otherwise,
\* and the type the summary shows for a PDF is the type the annotation loop
\* classifies it as, whose form it opens.
C26_FirstRuleWinsAtBothSites ==
    /\ \A i \in DOMAIN shown : shown[i] = FirstMatch(unannotated[i])
    /\ \A i \in DOMAIN saved :
          /\ saved[i].shown = FirstMatch(saved[i].pdf_path)
          /\ saved[i].classified = saved[i].shown
          /\ saved[i].shown # "unknown" => saved[i].form = saved[i].shown

\* a file whose path matches two rules went through the form of the first
C26_Witness ==
    \E i \in DOMAIN saved :
        /\ saved[i].pdf_path = SourceFile("invoices", "PO7", "pdf")
        /\ Cardinality(Matching(saved[i].pdf_path)) = 2
        /\ saved[i].form = "invoice"

\* C30: every record the collector saves has the four required top-level
\* fields, a document_type of the enumeration equal to entities.document_type,
\* the identifier key of its type, at least two entities fields and a mapping
\* annotation_metadata, and validate_annotation returns valid with no issues.
C30_SavedRecordsAreValid ==
    \A i \in DOMAIN saved :
        LET d == StoredRecord(saved[i].annotation_path)
        IN  /\ \A k \in Range(required_top_level) : k \in DOMAIN d.items
            /\ d.items["document_type"].str \in Range(valid_types)
            /\ d.items["entities"].kind = "dict"
            /\ d.items["entities"].items["document_type"] = d.items["document_type"]
            /\ IdentifierKey(d.items["document_type"])
                  \in DOMAIN d.items["entities"].items
            /\ Cardinality(DOMAIN d.items["entities"].items) >= 2
            /\ d.items["annotation_metadata"].kind = "dict"
            /\ validate_annotation(d) =
                  [state |-> "returned", valid |-> TRUE, issues |-> <<>>]

\* a file of unknown type, categorized by the user as a shipping order, with
\* every prompt left blank
C30_Witness ==
    \E i \in DOMAIN saved :
        /\ saved[i].shown = "unknown"
        /\ saved[i].form = "shipping_order"
        /\ saved[i].annotation.items["entities"].items["order_number"] = JStr("")

(***************************************************************************)
(* The settings' claims.                                                   *)
(***************************************************************************)
Built == settings # Null /\ settings.at = "built"

\* C25: a Settings object has, for every setting passed to the constructor,
\* the value passed, and for every setting not passed, its documented default
\* (openai_model = gpt-4, batch_size = 10, log_level = INFO).
C25_PassedOrDefault ==
    Built =>
        \A field \in DOMAIN Defaults :
            settings.object[field] =
                IF field \in DOMAIN init_kwargs THEN init_kwargs[field]
                ELSE Defaults[field]

\* C25, amended: a Settings object has, for every setting passed to the
\* constructor, the value passed; for every setting not passed that the
\* environment sets, the environment's value; and for every other setting its
\* documented default.
C25_PassedThenEnvironmentThenDefault ==
    Built =>
        /\ settings.object["openai_api_key"] =
              IF "openai_api_key" \in DOMAIN init_kwargs THEN "test-key" ELSE "env-key"
        /\ settings.object["openai_model"] =
              IF "openai_model" \in DOMAIN init_kwargs THEN "gpt-4o"
              ELSE IF "openai_model" \in DOMAIN environ THEN "gpt-3.5-turbo"
              ELSE "gpt-4"
        /\ settings.object["log_level"] =
              IF "log_level" \in DOMAIN init_kwargs THEN "DEBUG"
              ELSE IF "log_level" \in DOMAIN environ THEN "WARNING"
              ELSE "INFO"
        /\ settings.object["batch_size"] =
              IF "batch_size" \in DOMAIN init_kwargs THEN 20
              ELSE IF "batch_size" \in DOMAIN environ THEN 20
              ELSE 10

\* an object built with openai_api_key and log_level passed, in an
\* environment that sets LOG_LEVEL and OPENAI_MODEL
C25_Witness ==
    /\ Built
    /\ DOMAIN init_kwargs = {"openai_api_key", "log_level"}
    /\ DOMAIN environ = {"openai_api_key", "openai_model", "log_level"}
    /\ settings.object["log_level"] = "DEBUG"
    /\ settings.object["openai_model"] = "gpt-3.5-turbo"
    /\ settings.object["batch_size"] = 10

====
